---- MODULE Spec2Model ----
(***************************************************************************)
(* A model of the csg-portal-mcp server: the per-user encrypted credential *)
(* store and search cache (MongoDB collections), the user registry, the    *)
(* shared VeracrossAuth channel, the browser login flow and the directory  *)
(* search that uses them.  Asynchronous handlers are cut at their awaits:  *)
(* one action per stretch of code that runs without yielding.              *)
(***************************************************************************)
EXTENDS Integers, Sequences, FiniteSets, TLC

VARIABLES
  credentials,  \* collection 'credentials': userHash -> document | NoDoc
  cache,        \* collection 'cache': <<userHash, searchHash>> -> entry | NoDoc
  now,          \* the wall clock, in hours
  lastRead,     \* SpecStore: what the last load or get returned, and to whom
  users,        \* collection 'users': userHash -> UserConfig | NoDoc
  reg,          \* the tool calls in progress on the registry, one record per caller
  regLast,      \* the registry call that completed last, and what it started from
  auth,         \* the one VeracrossAuth object: its private fields
  ds,           \* the one DirectorySearch object: cache instance and currentUserEmail
  servers,      \* every BrowserAuthServer constructed so far, in order of construction
  call,         \* the search / login / clear call in progress, one record per caller
  done,         \* the calls that have returned, oldest first
  calls,        \* how many calls have been started
  attempt,      \* SpecLogin: the programmatic login attempt made, and its outcome
  applied       \* SpecFunctions: the function applications made last, with their results

storeVars == <<credentials, cache, lastRead>>
regVars   == <<users, reg, regLast>>
authVars  == <<auth, ds, servers, call, done, calls, attempt, applied>>
vars == <<credentials, cache, now, lastRead, users, reg, regLast,
          auth, ds, servers, call, done, calls, attempt, applied>>

(***************************************************************************)
(* Identities.  An email is a sequence of characters, so that lowercasing  *)
(* is computed and two spellings of one address are different values.      *)
(***************************************************************************)
EmailA  == <<"a", "@", "x">>
EmailAU == <<"A", "@", "x">>   \* EmailA in another letter case
EmailB  == <<"b", "@", "x">>

Users  == {EmailA, EmailB}
Emails == {EmailA, EmailAU, EmailB}

LowerChar(c) == CASE c = "A" -> "a" [] c = "B" -> "b" [] c = "X" -> "x" [] OTHER -> c

toLowerCase(s) == [i \in DOMAIN s |-> LowerChar(s[i])]

\* null / undefined for an object, a missing document, an unset email.
Null    == [null |-> TRUE]
NoDoc   == [nodoc |-> TRUE]
NoEmail == <<>>

\* createHash('sha256').update(x).digest(): collision-free on the bounded
\* identity set, so the digest is the tagged preimage.
sha256(x) == <<"sha256", x>>

\* hashEmail with the email left out of the digest.
hashEmailShared(email) == sha256(<<>>)

\* MongoCredentialStore.hashEmail (MongoSearchCache and UserManager have the same).
hashEmail(email) == sha256(toLowerCase(email))

\* hashEmail without the toLowerCase.
hashEmailAsGiven(email) == sha256(email)

\* MongoSearchCache.hashEmail, from its own source
hashEmailCache(email) == sha256(toLowerCase(email))

\* UserManager.hashEmail, from its own source
hashEmailUsers(email) == sha256(toLowerCase(email))

Handles == {hashEmail(e) : e \in Emails}

MasterKey == "master"

\* MongoCredentialStore.deriveKey: the key hashes masterKey + userEmail, the
\* email as it was given to the constructor.
deriveKey(masterKey, userEmail) == sha256(<<masterKey, userEmail>>)

\* JSON.stringify / JSON.parse: a string that came from stringify parses back
\* to the value; any other string makes parse throw.
JSONstringify(v) == <<"json", v>>

\* Every stored string is a tagged pair; a raw password is <<"text", pw>>.
IsJSON(s) == s[1] = "json"

JSONparse(s) == s[2]

\* aes-256-cbc: the ciphertext opens only under the key that made it; under
\* another key decipher.final (or the JSON.parse after it) throws.
encrypt(text, key) == [key |-> key, text |-> text]

\* A decipher that opens every ciphertext under any key.
decryptNeverThrows(enc, key) == enc.key # enc.key

decryptThrows(enc, key) == enc.key # key

decrypt(enc, key) == enc.text

(***************************************************************************)
(* MongoCredentialStore: an instance is made for one email and keeps the   *)
(* userHash and the encryption key it derived from it.                     *)
(***************************************************************************)
saveCredentials(coll, userEmail, creds) ==
  LET userHash == hashEmail(userEmail)
      enc      == encrypt(JSONstringify(creds), deriveKey(MasterKey, userEmail))
  IN  [coll EXCEPT ![userHash] =
         [userHash |-> userHash, encryptedCredentials |-> enc, writer |-> userEmail]]

loadCredentials(coll, userEmail) ==
  LET userHash == hashEmail(userEmail)
      document == coll[userHash]
      key      == deriveKey(MasterKey, userEmail)
  IN  IF document = NoDoc THEN Null
      ELSE IF decryptThrows(document.encryptedCredentials, key) THEN Null
      ELSE IF ~IsJSON(decrypt(document.encryptedCredentials, key)) THEN Null
      ELSE JSONparse(decrypt(document.encryptedCredentials, key))

\* clearCredentials whose deleteOne matches nothing.
clearCredentialsNone(coll, userEmail) == coll

\* MongoCredentialStore.clearCredentials: deleteOne({ userHash })
clearCredentials(coll, userEmail) ==
  [coll EXCEPT ![hashEmail(userEmail)] = NoDoc]

(***************************************************************************)
(* Cookies and stored sessions.  A cookie header is a sequence of cookies; *)
(* the value of the portal's session cookie is the person who logged in.   *)
(***************************************************************************)
SessionCookieName == "_veracross_session"

SessionCookie(owner) == [name |-> SessionCookieName, value |-> owner]
TrackingCookie       == [name |-> "visitor", value |-> <<"t">>]

\* BrowserAuthServer.isValidVeracrossSession: the header holds one of the marker
\* substrings ('session', 'auth', '_veracross', 'JSESSIONID').
HasMarker(cookie) == cookie.name \in {"_veracross_session", "auth_token", "JSESSIONID"}

\* isValidVeracrossSession that accepts every cookie header.
isValidAny(cookieHeader) == cookieHeader = cookieHeader

isValidVeracrossSession(cookieHeader) ==
  \E i \in DOMAIN cookieHeader : HasMarker(cookieHeader[i])

SessionTTLHours == 24

\* The SessionData object the login flow builds from a cookie header.
SessionData(cookieHeader, t) ==
  [cookies |-> cookieHeader, timestamp |-> t, expiresAt |-> t + SessionTTLHours]

\* The Credentials object under which a session is saved.
SessionCredentials(userEmail, cookieHeader, t) ==
  [username |-> userEmail, password |-> JSONstringify(SessionData(cookieHeader, t))]

(***************************************************************************)
(* MongoSearchCache.  Search parameters are an object: its keys in         *)
(* insertion order and their values (strings; a boolean is "true"/"false").*)
(***************************************************************************)
KeyOrder == <<"beginDate", "city", "endDate", "firstName", "lastName", "refresh",
             "tool", "userEmail">>

Params(keys, val) == [keys |-> keys, val |-> val]

HasKey(params, k) == \E i \in DOMAIN params.keys : params.keys[i] = k

\* delete searchParams.userEmail; delete searchParams.refresh
DeleteKey(params, k) ==
  [keys |-> SelectSeq(params.keys, LAMBDA x : x # k), val |-> params.val]

\* Object.keys(searchParams).sort()
SortedKeys(params) == SelectSeq(KeyOrder, LAMBDA k : HasKey(params, k))

\* JSON.stringify(searchParams, sortedKeys): the listed keys, in the list's
\* order, each with its value.
StringifyWithKeys(params, keys) == [i \in DOMAIN keys |-> <<keys[i], params.val[keys[i]]>>]

\* getCacheKey whose replacer array is Object.keys(searchParams), not sorted.
getCacheKeyUnsorted(params) ==
  LET searchParams == DeleteKey(DeleteKey(params, "userEmail"), "refresh")
  IN  sha256(StringifyWithKeys(searchParams, searchParams.keys))

getCacheKey(params) ==
  LET searchParams == DeleteKey(DeleteKey(params, "userEmail"), "refresh")
      key == StringifyWithKeys(searchParams, SortedKeys(searchParams))
  IN  sha256(key)

CacheTTLHours == 24

CacheGet(coll, userEmail, params, t) ==
  LET slot == <<hashEmail(userEmail), getCacheKey(params)>>
      document == coll[slot]
  IN  IF document = NoDoc \/ ~(document.expiresAt > t) THEN Null ELSE document.data

CacheSet(coll, userEmail, params, data, lifetimeHours, t) ==
  LET slot == <<hashEmail(userEmail), getCacheKey(params)>>
  IN  [coll EXCEPT ![slot] =
         [userHash |-> slot[1], searchHash |-> slot[2], data |-> data,
          timestamp |-> t, expiresAt |-> t + lifetimeHours, writer |-> userEmail]]

CacheClear(coll, userEmail, params) ==
  [coll EXCEPT ![<<hashEmail(userEmail), getCacheKey(params)>>] = NoDoc]

CacheClearAll(coll, userEmail) ==
  [slot \in DOMAIN coll |-> IF slot[1] = hashEmail(userEmail) THEN NoDoc ELSE coll[slot]]

(***************************************************************************)
(* UserManager: the 'users' collection and the operations on it.  Each     *)
(* operator is one database command, atomic in the database.               *)
(***************************************************************************)
Procs == {"p1", "p2"}

RegHandles == Handles

UserConfig(email, isDefault, t) ==
  [userHash |-> hashEmail(email), email |-> toLowerCase(email),
   isDefault |-> isDefault, lastUsed |-> t]

\* updateMany({ isDefault: true }, { $set: { isDefault: false } })
ClearTrueDefaults(coll) ==
  [h \in DOMAIN coll |->
     IF coll[h] # NoDoc /\ coll[h].isDefault THEN [coll[h] EXCEPT !.isDefault = FALSE]
     ELSE coll[h]]

\* ClearAllDefaults with the update left out.
KeepDefaults(coll) == coll

\* updateMany({}, { $set: { isDefault: false } })
ClearAllDefaults(coll) ==
  [h \in DOMAIN coll |->
     IF coll[h] # NoDoc THEN [coll[h] EXCEPT !.isDefault = FALSE] ELSE coll[h]]

\* replaceOne({ userHash }, userConfig, { upsert: true })
ReplaceUser(coll, email, isDefault, t) ==
  [coll EXCEPT ![hashEmail(email)] = UserConfig(email, isDefault, t)]

\* updateOne({ userHash }, { $set: { isDefault: true, lastUsed: new Date() } })
MarkDefault(coll, email, t) ==
  IF coll[hashEmail(email)] = NoDoc THEN coll
  ELSE [coll EXCEPT ![hashEmail(email)] =
          [coll[hashEmail(email)] EXCEPT !.isDefault = TRUE, !.lastUsed = t]]

matchedCount(coll, email) == IF coll[hashEmail(email)] = NoDoc THEN 0 ELSE 1

\* updateOne({ userHash }, { $set: { lastUsed: new Date() } })
updateLastUsed(coll, email, t) ==
  IF coll[hashEmail(email)] = NoDoc THEN coll
  ELSE [coll EXCEPT ![hashEmail(email)] = [coll[hashEmail(email)] EXCEPT !.lastUsed = t]]

hasUsers(coll) == \E h \in DOMAIN coll : coll[h] # NoDoc

\* The documents findOne({ isDefault: true }) may return.
DefaultHandles(coll) == {h \in DOMAIN coll : coll[h] # NoDoc /\ coll[h].isDefault}

\* findOne({}) without the sort: any document.
AnyUserHandles(coll) == {h \in DOMAIN coll : coll[h] # NoDoc}

\* The documents findOne({}, { sort: { lastUsed: -1 } }) may return.
MostRecentHandles(coll) ==
  {h \in DOMAIN coll : /\ coll[h] # NoDoc
                       /\ \A g \in DOMAIN coll :
                            coll[g] # NoDoc => coll[g].lastUsed <= coll[h].lastUsed}

\* The isDefault flag of every record (absent where there is none).
Flags(coll) ==
  [h \in DOMAIN coll |-> IF coll[h] = NoDoc THEN "absent"
                         ELSE IF coll[h].isDefault THEN "default" ELSE "plain"]

NoCall  == [op |-> "none", email |-> NoEmail]
IdleReg == [op |-> "none", email |-> NoEmail, pc |-> "idle", user |-> NoEmail,
            isDefault |-> FALSE, alone |-> TRUE,
            before |-> [h \in Handles |-> "absent"], prev |-> NoCall]
NoLast  == [op |-> "none", email |-> NoEmail, alone |-> TRUE, result |-> "none",
            before |-> [h \in Handles |-> "absent"], prev |-> NoCall]

InitRegVars ==
  /\ users = [h \in RegHandles |-> NoDoc]
  /\ reg = [p \in Procs |-> IdleReg]
  /\ regLast = NoLast

(***************************************************************************)
(* VeracrossAuth, BrowserAuthServer and DirectorySearch.  The server makes *)
(* one VeracrossAuth and one DirectorySearch and every tool call uses      *)
(* them.  A store or cache instance is represented by the email it was     *)
(* constructed for.                                                        *)
(***************************************************************************)
\* new URL(this.baseUrl).hostname and new URL(searchUrl).hostname
BaseHost      == "accounts.veracross.com"
DirectoryHost == "portals.veracross.com"

\* VeracrossAuth after its constructor.  browserAuthServer is the index in
\* servers of the instance held (0: undefined); baseUrl is the host of the
\* base URL the server was configured with.
InitAuth == [cookieJar |-> {}, isAuthenticated |-> FALSE, currentUserEmail |-> NoEmail,
             credentialStore |-> NoEmail, browserAuthServer |-> 0, baseUrl |-> BaseHost]

ensureCredentialStore(a, userEmail) ==
  IF a.credentialStore = NoEmail \/ a.currentUserEmail # userEmail
  THEN [a EXCEPT !.credentialStore = userEmail, !.currentUserEmail = userEmail,
                 !.isAuthenticated = FALSE]
  ELSE a

NeedsBrowserAuthServer(a, userEmail) ==
  a.browserAuthServer = 0 \/ a.currentUserEmail # userEmail

\* n is the index the new instance gets.
ensureBrowserAuthServer(a, userEmail, n) ==
  IF NeedsBrowserAuthServer(a, userEmail)
  THEN [a EXCEPT !.browserAuthServer = n, !.currentUserEmail = userEmail,
                 !.isAuthenticated = FALSE]
  ELSE a

\* new BrowserAuthServer(userEmail).  server is the flow whose listen() made the
\* http.Server now held (0: null); open are the listeners not yet closed, each
\* with the person whose browser was sent to it; authResolve is the flow whose
\* promise the resolver held resolves (0: null).
BrowserAuthServer(userEmail) ==
  [userEmail |-> userEmail, server |-> 0, open |-> {}, authResolve |-> 0,
   closeTimer |-> FALSE]

\* BrowserAuthServer.close
close(srv) ==
  IF srv.server # 0
  THEN [srv EXCEPT !.open = {l \in srv.open : l.flow # srv.server}, !.server = 0]
  ELSE srv

\* CheapPath with the identity comparison negated.
CheapPathNever(a, userEmail) == a.isAuthenticated /\ a.currentUserEmail # userEmail

\* The first test of ensureAuthenticated.
CheapPath(a, userEmail) == a.isAuthenticated /\ a.currentUserEmail = userEmail

\* A response: ok (status 2xx), whether the final URL contains 'login', and
\* whether it carries a Set-Cookie that renews the session cookie it was sent.
Response(ok, urlHasLogin, setCookie) ==
  [ok |-> ok, urlHasLogin |-> urlHasLogin, setCookie |-> setCookie, throws |-> FALSE]

FetchThrows == [ok |-> FALSE, urlHasLogin |-> FALSE, setCookie |-> FALSE, throws |-> TRUE]

Responses == {Response(TRUE, FALSE, FALSE), Response(TRUE, FALSE, TRUE),
              Response(TRUE, TRUE, FALSE), Response(FALSE, FALSE, FALSE), FetchThrows}

\* makeAuthenticatedRequest sends no cookie jar and stores no Set-Cookie.
FetchResponses == {r \in Responses : ~r.setCookie}

\* ProbeValid without the test of the final URL, and with that test inverted.
ProbeValidNoLoginTest(r) == r.ok

ProbeValidInverted(r) == r.ok /\ r.urlHasLogin

\* testResponse.ok && !testResponse.url.includes('login')
ProbeValid(r) == r.ok /\ ~r.urlHasLogin

\* makeAuthenticatedRequest that takes every URL as one of the base host.
CrossDomainNever(a, url) == url # url

\* makeAuthenticatedRequest: urlHost !== baseUrlHost
CrossDomain(a, url) == url # a.baseUrl

\* makeAuthenticatedRequest that never finds the identity missing.
NoUserEmailSetNever(a) == a.currentUserEmail # a.currentUserEmail

\* makeAuthenticatedRequest: !this.currentUserEmail
NoUserEmailSet(a) == a.currentUserEmail = NoEmail

\* new Error(message)
Error(message) == [error |-> message]

NoUserEmailError == Error("No user email set. Please authenticate first.")

\* makeAuthenticatedRequest that fails without saying why.
CrossDomainErrorSilent(creds) == Error("Error")

\* The error makeAuthenticatedRequest throws when the stored credentials creds
\* give it no cookies for a request to another host.
CrossDomainError(creds) ==
  IF creds = Null THEN Error("No stored credentials found for cross-domain request")
  ELSE IF ~IsJSON(creds.password) THEN Error("Invalid session data for cross-domain request")
  ELSE Error("No session cookies found for cross-domain request")

\* cookieJar.getCookieString: the cookies of the jar as one header.
RECURSIVE getCookieString(_)
getCookieString(jar) ==
  IF jar = {} THEN <<>>
  ELSE LET c == CHOOSE x \in jar : TRUE IN <<c>> \o getCookieString(jar \ {c})

\* logout that leaves the authenticated flag as it is.
logoutKeepsFlag(a) == [a EXCEPT !.cookieJar = {}]

\* VeracrossAuth.logout
logout(a) == [a EXCEPT !.isAuthenticated = FALSE, !.cookieJar = {}]

\* cookieJar.setCookie for each cookie of a header: a cookie replaces the one
\* of the same name.
setCookies(jar, header) ==
  {c \in jar : \A i \in DOMAIN header : header[i].name # c.name}
    \cup {header[i] : i \in DOMAIN header}

\* The people whose session cookie is among the cookies of a request.
SessionOwners(cookies) == {c.value : c \in {x \in cookies : x.name = SessionCookieName}}

\* credentials && credentials.password && JSON.parse(...).cookies
HasSession(creds) ==
  /\ creds # Null
  /\ IsJSON(creds.password)
  /\ JSONparse(creds.password).cookies # <<>>

StoredCookies(creds) == JSONparse(creds.password).cookies

\* DirectorySearch after its constructor, and ensureCache.
InitDs == [cache |-> NoEmail, currentUserEmail |-> NoEmail]

ensureCache(d, userEmail) ==
  IF d.cache = NoEmail \/ d.currentUserEmail # userEmail
  THEN [cache |-> userEmail, currentUserEmail |-> userEmail]
  ELSE d

\* What one call has done so far to authenticate: whether ensureAuthenticated
\* was entered, whether the channel was then marked authenticated with the
\* call's user as current identity, whether loadStoredSession
\* returned true, whether some probe response was successful with a final URL
\* free of 'login', whether every probe response was successful with 'login'
\* in its final URL, the requests sent, the store reads, the startAuthFlow
\* invocations, and what was returned.
NoEnsure == [entered |-> FALSE, trusted |-> FALSE, loaded |-> FALSE,
             probeOk |-> FALSE, probesLogin |-> TRUE,
             net |-> 0, reads |-> 0, flows |-> 0, result |-> "none"]

\* The record after the probe response r.
Probed(ea, r) ==
  [ea EXCEPT !.probeOk = @ \/ (~r.throws /\ r.ok /\ ~r.urlHasLogin),
             !.probesLogin = @ /\ (~r.throws /\ r.ok /\ r.urlHasLogin)]

NoReq == [sent |-> FALSE, cookies |-> {}]

IdleCall == [id |-> 0, tool |-> "none", user |-> NoEmail, refresh |-> FALSE,
             pc |-> "idle", store |-> NoEmail, cacheInst |-> NoEmail, srv |-> 0,
             promise |-> "none", req |-> NoReq, ea |-> NoEnsure, url |-> "none"]

\* The response to the POST of username and password: its status, its Location
\* header ("none": absent), and which of the words the code looks for are in
\* its body.
Locations == {"none", "/csg/login?failed=1", "/csg/parent"}

IncludesLogin(location) == location = "/csg/login?failed=1"

BodyWords == {"Invalid", "incorrect", "error", "parent"}

LoginResponses ==
  [status : {200, 301, 302, 401, 500}, location : Locations, body : SUBSET BodyWords]

\* BrowserAuthServer.handleLoginSubmission, step 3: loginSuccessful
loginSuccessful(loginResponse) ==
  CASE loginResponse.status = 302 ->
         loginResponse.location # "none" /\ ~IncludesLogin(loginResponse.location)
    [] loginResponse.status = 200 ->
         /\ "Invalid" \notin loginResponse.body
         /\ "incorrect" \notin loginResponse.body
         /\ "error" \notin loginResponse.body
         /\ "parent" \in loginResponse.body
    [] OTHER -> FALSE

\* VeracrossAuth.login of src/auth.ts: what it returns for the response
loginReturns(loginResponse) ==
  IF /\ loginResponse.status \in {302, 200}
     /\ loginResponse.location # "none" /\ ~IncludesLogin(loginResponse.location)
  THEN TRUE
  ELSE "Invalid" \notin loginResponse.body /\ "error" \notin loginResponse.body

\* The responses the portal gives to a login submitted during a flow.
FlowLoginResponses ==
  {r \in LoginResponses : r.status = 302 /\ r.location # "none" /\ r.body = {}}

NoAttempt == [by |-> "none", response |-> Null, success |-> FALSE,
              isAuthenticated |-> FALSE, stored |-> FALSE]

\* No function has been applied yet.
NoApplied == [op |-> "none"]

InitAuthVars ==
  /\ attempt = NoAttempt
  /\ applied = NoApplied
  /\ auth = InitAuth
  /\ ds = InitDs
  /\ servers = <<>>
  /\ call = [p \in Procs |-> IdleCall]
  /\ done = <<>>
  /\ calls = 0

(***************************************************************************)
(* SpecStore: the two stores on their own.  Any instance (one per email    *)
(* spelling) may save, load, clear, set and get in any order while the     *)
(* clock advances.                                                         *)
(***************************************************************************)
Q1  == Params(<<"firstName">>, [firstName |-> "Ann"])
Q1r == Params(<<"refresh", "firstName", "userEmail">>,
              [firstName |-> "Ann", refresh |-> "true", userEmail |-> "b@x"])
Q2  == Params(<<"firstName", "lastName">>, [firstName |-> "Ann", lastName |-> "Lee"])
Q2o == Params(<<"lastName", "firstName">>, [firstName |-> "Ann", lastName |-> "Lee"])

StoreQueries == {Q1, Q1r}
SearchHashes == {getCacheKey(q) : q \in StoreQueries}

TickHours == 24
MaxTicks  == 2

\* Search results as the portal serves them: they depend on whose session asked.
\* fetchedFor records the search that fetched them.
Results(owner, searcher) == [servedTo |-> owner, fetchedFor |-> searcher]

\* at is the time of the read and doc the document the slot held then.
NoRead == [op |-> "none", by |-> NoEmail, result |-> Null, writer |-> NoEmail,
           at |-> 0, doc |-> NoDoc]

InitStore ==
  /\ credentials = [h \in Handles |-> NoDoc]
  /\ cache = [slot \in Handles \X SearchHashes |-> NoDoc]
  /\ now = 0
  /\ lastRead = NoRead
  /\ InitRegVars
  /\ InitAuthVars

StoreSave(e) ==
  /\ credentials' = saveCredentials(credentials, e,
                       SessionCredentials(e, <<SessionCookie(toLowerCase(e))>>, 0))
  /\ UNCHANGED <<cache, now, lastRead, regVars, authVars>>

StoreLoad(e) ==
  /\ lastRead' = [op |-> "load", by |-> e, result |-> loadCredentials(credentials, e),
                  writer |-> IF credentials[hashEmail(e)] = NoDoc THEN NoEmail
                             ELSE credentials[hashEmail(e)].writer,
                  at |-> now, doc |-> credentials[hashEmail(e)]]
  /\ UNCHANGED <<credentials, cache, now, regVars, authVars>>

StoreClear(e) ==
  /\ credentials' = clearCredentials(credentials, e)
  /\ UNCHANGED <<cache, now, lastRead, regVars, authVars>>

StoreCacheSet(e, q) ==
  /\ cache' = CacheSet(cache, e, q, Results(toLowerCase(e), e), CacheTTLHours, now)
  /\ UNCHANGED <<credentials, now, lastRead, regVars, authVars>>

StoreCacheGet(e, q) ==
  /\ lastRead' = [op |-> "get", by |-> e, result |-> CacheGet(cache, e, q, now),
                  writer |-> IF cache[<<hashEmail(e), getCacheKey(q)>>] = NoDoc THEN NoEmail
                             ELSE cache[<<hashEmail(e), getCacheKey(q)>>].writer,
                  at |-> now, doc |-> cache[<<hashEmail(e), getCacheKey(q)>>]]
  /\ UNCHANGED <<credentials, cache, now, regVars, authVars>>

StoreCacheClear(e, q) ==
  /\ cache' = CacheClear(cache, e, q)
  /\ UNCHANGED <<credentials, now, lastRead, regVars, authVars>>

StoreCacheClearAll(e) ==
  /\ cache' = CacheClearAll(cache, e)
  /\ UNCHANGED <<credentials, now, lastRead, regVars, authVars>>

Tick ==
  /\ now < MaxTicks * TickHours
  /\ now' = now + TickHours
  /\ UNCHANGED <<credentials, cache, lastRead, regVars, authVars>>

NextStore ==
  \/ \E e \in Emails : StoreSave(e)
  \/ \E e \in Emails : StoreLoad(e)
  \/ \E e \in Emails : StoreClear(e)
  \/ \E e \in Emails, q \in StoreQueries : StoreCacheSet(e, q)
  \/ \E e \in Emails, q \in StoreQueries : StoreCacheGet(e, q)
  \/ \E e \in Emails, q \in StoreQueries : StoreCacheClear(e, q)
  \/ \E e \in Emails : StoreCacheClearAll(e)
  \/ Tick

SpecStore == InitStore /\ [][NextStore]_vars

\* C4: a loadCredentials or a cache get made by an instance for identity B never
\* returns a value written by an instance for an identity A whose lowercase form
\* differs from B's.
C4_PartitionIsolation ==
  lastRead.result # Null => toLowerCase(lastRead.writer) = toLowerCase(lastRead.by)

\* B reads its own cached results back while A's secret and A's results for
\* the same query are stored.
C4_Witness ==
  /\ lastRead.op = "get" /\ lastRead.by = EmailB /\ lastRead.result # Null
  /\ credentials[hashEmail(EmailA)] # NoDoc
  /\ credentials[hashEmail(EmailB)] # NoDoc
  /\ cache[<<hashEmail(EmailA), getCacheKey(Q1)>>] # NoDoc

(***************************************************************************)
(* SpecRegistry: set_default_user and the registry part of login, cut at   *)
(* every database await, run by two callers at once.  SpecRegistrySeq is   *)
(* the same handlers issued one at a time.  What login does after addUser  *)
(* (authenticateWithBrowser) neither reads nor writes 'users'.             *)
(***************************************************************************)
AllIdle == \A q \in Procs : reg[q].pc = "idle"

NoFlags == [h \in RegHandles |-> "absent"]

\* What a call started from is kept only while the call runs alone.
Begin(p, op, e, pc) ==
  /\ reg[p].pc = "idle"
  /\ reg' = [q \in Procs |->
              IF q = p
              THEN [op |-> op, email |-> e, pc |-> pc, user |-> e, isDefault |-> FALSE,
                    alone |-> AllIdle,
                    before |-> IF AllIdle THEN Flags(users) ELSE NoFlags,
                    prev |-> IF AllIdle /\ regLast.alone
                             THEN [op |-> regLast.op, email |-> regLast.email]
                             ELSE NoCall]
              ELSE IF reg[q].pc # "idle"
              THEN [reg[q] EXCEPT !.alone = FALSE, !.before = NoFlags, !.prev = NoCall]
              ELSE reg[q]]

Finish(p, result) ==
  /\ reg' = [reg EXCEPT ![p] = IdleReg]
  /\ regLast' = IF reg[p].alone
                THEN [op |-> reg[p].op, email |-> reg[p].email, alone |-> TRUE,
                      result |-> result, before |-> reg[p].before, prev |-> reg[p].prev]
                ELSE [NoLast EXCEPT !.alone = FALSE]

Goto(p, pc) == reg' = [reg EXCEPT ![p].pc = pc]

\* handleSetDefaultUser -> UserManager.setDefaultUser(email)
StartSetDefaultUser(p, e) ==
  /\ Begin(p, "setDefault", e, "sd_clear")
  /\ UNCHANGED <<users, regLast, now, storeVars, authVars>>

\* setDefaultUser: remove default from all users
SetDefaultClear(p) ==
  /\ reg[p].pc = "sd_clear"
  /\ users' = ClearAllDefaults(users)
  /\ Goto(p, "sd_update")
  /\ UNCHANGED <<regLast, now, storeVars, authVars>>

\* setDefaultUser: set the specified user as default; an unknown user is added
SetDefaultUpdate(p) ==
  /\ reg[p].pc = "sd_update"
  /\ users' = MarkDefault(users, reg[p].user, now)
  /\ IF matchedCount(users, reg[p].user) = 0
     THEN /\ reg' = [reg EXCEPT ![p].pc = "add_clear", ![p].isDefault = TRUE]
          /\ UNCHANGED regLast
     ELSE Finish(p, "set")
  /\ UNCHANGED <<now, storeVars, authVars>>

\* addUser: if this user should be default, remove default from other users first
AddUserClear(p) ==
  /\ reg[p].pc = "add_clear"
  /\ users' = ClearTrueDefaults(users)
  /\ Goto(p, "add_replace")
  /\ UNCHANGED <<regLast, now, storeVars, authVars>>

\* addUser: the upsert of the user's record
AddUserReplace(p) ==
  /\ reg[p].pc = "add_replace"
  /\ users' = ReplaceUser(users, reg[p].user, reg[p].isDefault, now)
  /\ Finish(p, "added")
  /\ UNCHANGED <<now, storeVars, authVars>>

\* handleBrowserAuthentication -> resolveUserEmail(args.userEmail)
StartLogin(p, e) ==
  /\ Begin(p, "login", e, IF e # NoEmail THEN "touch" ELSE "find_default")
  /\ UNCHANGED <<users, regLast, now, storeVars, authVars>>

\* resolveUserEmail with a provided email: updateLastUsed
ResolveTouch(p) ==
  /\ reg[p].pc = "touch"
  /\ users' = updateLastUsed(users, reg[p].user, now)
  /\ Goto(p, "has_users")
  /\ UNCHANGED <<regLast, now, storeVars, authVars>>

\* detectUserEmail -> getDefaultUser: findOne({ isDefault: true })
FindDefault(p) ==
  /\ reg[p].pc = "find_default"
  /\ \/ /\ DefaultHandles(users) = {}
        /\ Goto(p, "most_recent")
     \/ \E h \in DefaultHandles(users) :
          reg' = [reg EXCEPT ![p].pc = "touch_default", ![p].user = users[h].email]
  /\ UNCHANGED <<users, regLast, now, storeVars, authVars>>

\* getDefaultUser: update last used timestamp of the default user found
TouchDefault(p) ==
  /\ reg[p].pc = "touch_default"
  /\ users' = updateLastUsed(users, reg[p].user, now)
  /\ Goto(p, "has_users")
  /\ UNCHANGED <<regLast, now, storeVars, authVars>>

\* detectUserEmail -> getMostRecentUser; with no user at all resolveUserEmail throws
MostRecent(p) ==
  /\ reg[p].pc = "most_recent"
  /\ \/ /\ MostRecentHandles(users) = {}
        /\ Finish(p, "identity_error")
     \/ /\ \E h \in MostRecentHandles(users) :
             reg' = [reg EXCEPT ![p].pc = "has_users", ![p].user = users[h].email]
        /\ UNCHANGED regLast
  /\ UNCHANGED <<users, now, storeVars, authVars>>

\* addUser(email, !await hasUsers()): the count, then addUser's first command
HasUsersThenAdd(p) ==
  /\ reg[p].pc = "has_users"
  /\ reg' = [reg EXCEPT ![p].isDefault = ~hasUsers(users),
                         ![p].pc = IF ~hasUsers(users) THEN "add_clear" ELSE "add_replace"]
  /\ UNCHANGED <<users, regLast, now, storeVars, authVars>>

RegistryStep(p) ==
  \/ \E e \in Emails : StartSetDefaultUser(p, e)
  \/ \E e \in Emails \cup {NoEmail} : StartLogin(p, e)
  \/ SetDefaultClear(p)
  \/ SetDefaultUpdate(p)
  \/ AddUserClear(p)
  \/ AddUserReplace(p)
  \/ ResolveTouch(p)
  \/ FindDefault(p)
  \/ TouchDefault(p)
  \/ MostRecent(p)
  \/ HasUsersThenAdd(p)

InitRegistry ==
  /\ credentials = [h \in Handles |-> NoDoc]
  /\ cache = [slot \in Handles \X SearchHashes |-> NoDoc]
  /\ now = 0
  /\ lastRead = NoRead
  /\ InitRegVars
  /\ InitAuthVars

NextRegistry == (\E p \in Procs : RegistryStep(p)) \/ Tick

SpecRegistry == InitRegistry /\ [][NextRegistry]_vars

NextRegistrySeq == (AllIdle /\ Tick) \/ (\E p \in {"p1"} : RegistryStep(p))

SpecRegistrySeq == InitRegistry /\ [][NextRegistrySeq]_vars

\* C5: at most one user record has isDefault = true, in every state the registry
\* reaches under interleaved set_default_user and login calls.
C5_AtMostOneDefault == Cardinality(DefaultHandles(users)) <= 1

\* C6: once setDefaultUser(x) has completed with no other registry call running,
\* exactly one record is the default and it is x's (created if it was missing);
\* a second setDefaultUser(x) leaves every record's flag as it was; and
\* setDefaultUser(a) then setDefaultUser(b) leaves b the default and a's record
\* with isDefault = false.
C6_SetDefaultUser ==
  (AllIdle /\ regLast.op = "setDefault" /\ regLast.alone) =>
    LET x == regLast.email
        a == regLast.prev.email
    IN  /\ DefaultHandles(users) = {hashEmail(x)}
        /\ users[hashEmail(x)].email = toLowerCase(x)
        /\ regLast.prev = [op |-> "setDefault", email |-> x] =>
              Flags(users) = regLast.before
        /\ (regLast.prev.op = "setDefault" /\ hashEmail(a) # hashEmail(x)) =>
              /\ {users[h].email : h \in DefaultHandles(users)} = {toLowerCase(x)}
              /\ users[hashEmail(a)] # NoDoc
              /\ ~users[hashEmail(a)].isDefault

\* setDefaultUser(a) and then setDefaultUser(b) have both completed.
C6_Witness ==
  /\ AllIdle
  /\ regLast.op = "setDefault" /\ regLast.email = EmailB
  /\ regLast.prev = [op |-> "setDefault", email |-> EmailA]
  /\ regLast.before[hashEmail(EmailA)] = "default"
  /\ users[hashEmail(EmailB)].isDefault

(***************************************************************************)
(* Spec: DirectorySearch.search, VeracrossAuth.authenticateWithBrowser,    *)
(* logout and clearStoredCredentials on the shared objects, cut at their   *)
(* awaits, run by two callers at once; the browser's requests to the login *)
(* server and its timers are the environment.  SpecSeq issues the same     *)
(* calls one at a time.                                                    *)
(***************************************************************************)
MaxCalls    == 2
MaxCallsSeq == 2

AllCallsIdle == \A q \in Procs : call[q].pc = "idle"

\* The params object of a search: the tool's arguments plus userEmail.
SearchParams(u, refresh) ==
  Params(<<"firstName", "refresh", "userEmail">>,
         [firstName |-> "Ann", refresh |-> IF refresh THEN "true" ELSE "false",
          userEmail |-> u])

\* The document an earlier server process saved for u after u logged in.
StoredSession(u) ==
  saveCredentials([h \in Handles |-> NoDoc], u,
                  SessionCredentials(u, <<SessionCookie(u)>>, 0))[hashEmail(u)]

Untouched == UNCHANGED <<now, lastRead, regVars, attempt, applied>>

NewCall(tool, u, refresh) ==
  [IdleCall EXCEPT !.id = calls + 1, !.tool = tool, !.user = u, !.refresh = refresh]

Return(p, ok, data) ==
  /\ call' = [call EXCEPT ![p] = IdleCall]
  /\ done' = Append(done, [tool |-> call[p].tool, user |-> call[p].user,
                           ok |-> ok, data |-> data])

\* The synchronous head of ensureAuthenticated(c.user): the first test, or
\* loadStoredSession up to its loadCredentials.
EnterEnsure(a, c) ==
  LET ea == [NoEnsure EXCEPT !.entered = TRUE,
                             !.trusted = a.isAuthenticated /\ a.currentUserEmail = c.user]
  IN  IF CheapPath(a, c.user)
      THEN [auth |-> a,
            call |-> [c EXCEPT !.pc = "ea_ret", !.ea = [ea EXCEPT !.result = "true"]]]
      ELSE [auth |-> ensureCredentialStore(a, c.user),
            call |-> [c EXCEPT !.pc = "ea_load", !.store = c.user, !.ea = ea]]

\* The synchronous head of authenticateWithBrowser(c.user): hasStoredSession up
\* to its loadCredentials.
EnterAuthenticate(a, c) ==
  [auth |-> ensureCredentialStore(a, c.user),
   call |-> [c EXCEPT !.pc = "ab_has", !.store = c.user]]

\* ensureBrowserAuthServer(c.user) and the call of startAuthFlow on the
\* instance then held, up to its await getPort.
BeginFlow(a, srvs, c) ==
  LET a2 == ensureBrowserAuthServer(a, c.user, Len(srvs) + 1)
  IN  [auth |-> a2,
       servers |-> IF NeedsBrowserAuthServer(a, c.user)
                   THEN Append(srvs, BrowserAuthServer(c.user)) ELSE srvs,
       call |-> [c EXCEPT !.pc = "fl_port", !.srv = a2.browserAuthServer,
                          !.ea.flows = @ + 1]]

\* makeRequest after the fetch: Set-Cookie headers go into the jar held now.
AfterResponse(a, r, sent) ==
  LET renewed == {x \in sent : x.name = SessionCookieName}
  IN  IF ~r.throws /\ r.setCookie
      THEN [a EXCEPT !.cookieJar =
              {c \in a.cookieJar : \A x \in renewed : x.name # c.name} \cup renewed]
      ELSE a

\* authenticateWithBrowser returns r: to the login tool, or to ensureAuthenticated
\* which returns it to search.
AuthReturns(p, c, r) ==
  IF c.tool = "login"
  THEN /\ call' = [call EXCEPT ![p] = IdleCall]
       /\ done' = Append(done, [tool |-> c.tool, user |-> c.user, ok |-> r, data |-> Null])
  ELSE /\ call' = [call EXCEPT ![p] = [c EXCEPT !.pc = "ea_ret",
                                         !.ea.result = IF r THEN "true" ELSE "false"]]
       /\ done' = done

\* search that reads the cache whether refresh is set or not.
StartSearchReadsCache(p, u, refresh) ==
  /\ call[p].pc = "idle"
  /\ calls' = calls + 1
  /\ ds' = ensureCache(ds, u)
  /\ auth' = auth
  /\ call' = [call EXCEPT ![p] =
                [NewCall("search", u, refresh) EXCEPT !.pc = "s_get", !.cacheInst = u]]
  /\ UNCHANGED <<credentials, cache, servers, done>>
  /\ Untouched

\* search: ensureCache, then cache.get unless refresh, else ensureAuthenticated
StartSearch(p, u, refresh) ==
  /\ call[p].pc = "idle"
  /\ calls' = calls + 1
  /\ ds' = ensureCache(ds, u)
  /\ LET c == NewCall("search", u, refresh)
         e == EnterEnsure(auth, c)
     IN  IF refresh
         THEN /\ auth' = e.auth
              /\ call' = [call EXCEPT ![p] = e.call]
         ELSE /\ auth' = auth
              /\ call' = [call EXCEPT ![p] = [c EXCEPT !.pc = "s_get", !.cacheInst = u]]
  /\ UNCHANGED <<credentials, cache, servers, done>>
  /\ Untouched

\* search: cache.get answered; a hit is returned, a miss goes to ensureAuthenticated
SearchCacheGet(p) ==
  /\ call[p].pc = "s_get"
  /\ LET c == call[p]
         cachedResults == CacheGet(cache, c.cacheInst, SearchParams(c.user, c.refresh), now)
         e == EnterEnsure(auth, c)
     IN  IF cachedResults # Null
         THEN /\ Return(p, TRUE, cachedResults)
              /\ auth' = auth
         ELSE /\ auth' = e.auth
              /\ call' = [call EXCEPT ![p] = e.call]
              /\ done' = done
  /\ UNCHANGED <<credentials, cache, ds, servers, calls>>
  /\ Untouched

\* ensureAuthenticated -> loadStoredSession: loadCredentials answered; the cookies
\* go into the jar and the probe is sent, or the store is asked again
EnsureLoad(p) ==
  /\ call[p].pc = "ea_load"
  /\ LET c == call[p]
         creds == loadCredentials(credentials, c.store)
         jar == setCookies(auth.cookieJar, StoredCookies(creds))
     IN  IF HasSession(creds)
         THEN /\ auth' = [auth EXCEPT !.cookieJar = jar, !.isAuthenticated = TRUE]
              /\ call' = [call EXCEPT ![p] =
                            [c EXCEPT !.pc = "ea_probe", !.ea.loaded = TRUE,
                                      !.ea.reads = @ + 1, !.ea.net = @ + 1,
                                      !.req = [sent |-> TRUE, cookies |-> jar]]]
         ELSE /\ auth' = ensureCredentialStore(auth, c.user)
              /\ call' = [call EXCEPT ![p] =
                            [c EXCEPT !.pc = "ea_load2", !.store = c.user,
                                      !.ea.reads = @ + 1]]
  /\ UNCHANGED <<credentials, cache, ds, servers, done, calls>>
  /\ Untouched

\* ensureAuthenticated whose probe lets a thrown fetch error escape: the call
\* ends there with nothing returned.
EnsureProbeEscapes(p, r) ==
  /\ call[p].pc = "ea_probe"
  /\ IF r.throws
     THEN /\ call' = [call EXCEPT ![p] = IdleCall]
          /\ auth' = auth
     ELSE LET c == [call[p] EXCEPT !.ea = Probed(@, r), !.req = NoReq]
              a == AfterResponse(auth, r, call[p].req.cookies)
          IN  IF ProbeValid(r)
              THEN /\ auth' = a
                   /\ call' = [call EXCEPT ![p] =
                                 [c EXCEPT !.pc = "ea_ret", !.ea.result = "true"]]
              ELSE /\ auth' = ensureCredentialStore(a, c.user)
                   /\ call' = [call EXCEPT ![p] =
                                 [c EXCEPT !.pc = "ea_load2", !.store = c.user]]
  /\ UNCHANGED <<credentials, cache, ds, servers, done, calls>>
  /\ Untouched

\* ensureAuthenticated: the probe of /parent answered
EnsureProbe(p, r) ==
  /\ call[p].pc = "ea_probe"
  /\ LET c == [call[p] EXCEPT !.ea = Probed(@, r), !.req = NoReq]
         a == AfterResponse(auth, r, call[p].req.cookies)
     IN  IF ~r.throws /\ ProbeValid(r)
         THEN /\ auth' = a
              /\ call' = [call EXCEPT ![p] = [c EXCEPT !.pc = "ea_ret", !.ea.result = "true"]]
         ELSE /\ auth' = ensureCredentialStore(a, c.user)
              /\ call' = [call EXCEPT ![p] = [c EXCEPT !.pc = "ea_load2", !.store = c.user]]
  /\ UNCHANGED <<credentials, cache, ds, servers, done, calls>>
  /\ Untouched

\* ensureAuthenticated: the second loadCredentials answered.  Every password the
\* server stores is session JSON, so attemptPasswordLogin is never entered and
\* authenticateWithBrowser is.
EnsureLoad2(p) ==
  /\ call[p].pc = "ea_load2"
  /\ LET c == [call[p] EXCEPT !.ea.reads = @ + 1]
         creds == loadCredentials(credentials, c.store)
         e == EnterAuthenticate(auth, c)
     IN  /\ creds # Null => IsJSON(creds.password)
         /\ auth' = e.auth
         /\ call' = [call EXCEPT ![p] = e.call]
  /\ UNCHANGED <<credentials, cache, ds, servers, done, calls>>
  /\ Untouched

\* the login tool: authenticateWithBrowser(u)
StartAuthenticate(p, u) ==
  /\ call[p].pc = "idle"
  /\ calls' = calls + 1
  /\ LET e == EnterAuthenticate(auth, NewCall("login", u, FALSE))
     IN  /\ auth' = e.auth
         /\ call' = [call EXCEPT ![p] = e.call]
  /\ UNCHANGED <<credentials, cache, ds, servers, done>>
  /\ Untouched

\* authenticateWithBrowser: hasStoredSession answered; with a session
\* loadStoredSession is called, without one the login flow is started
AuthHas(p) ==
  /\ call[p].pc = "ab_has"
  /\ LET c == [call[p] EXCEPT !.ea.reads = @ + 1]
         creds == loadCredentials(credentials, c.store)
         f == BeginFlow(auth, servers, c)
     IN  IF HasSession(creds)
         THEN /\ auth' = ensureCredentialStore(auth, c.user)
              /\ call' = [call EXCEPT ![p] = [c EXCEPT !.pc = "ab_load", !.store = c.user]]
              /\ servers' = servers
         ELSE /\ auth' = f.auth
              /\ servers' = f.servers
              /\ call' = [call EXCEPT ![p] = f.call]
  /\ UNCHANGED <<credentials, cache, ds, done, calls>>
  /\ Untouched

\* authenticateWithBrowser: loadStoredSession answered (its result is not
\* looked at) and the probe is sent with the jar as it is
AuthLoad(p) ==
  /\ call[p].pc = "ab_load"
  /\ LET c == call[p]
         creds == loadCredentials(credentials, c.store)
         a == IF HasSession(creds)
              THEN [auth EXCEPT !.cookieJar = setCookies(auth.cookieJar, StoredCookies(creds)),
                                !.isAuthenticated = TRUE]
              ELSE auth
     IN  /\ auth' = a
         /\ call' = [call EXCEPT ![p] =
                       [c EXCEPT !.pc = "ab_probe", !.ea.reads = @ + 1, !.ea.net = @ + 1,
                                 !.req = [sent |-> TRUE, cookies |-> a.cookieJar]]]
  /\ UNCHANGED <<credentials, cache, ds, servers, done, calls>>
  /\ Untouched

\* authenticateWithBrowser: the probe answered; a valid one returns true, any
\* other outcome starts the login flow
AuthProbe(p, r) ==
  /\ call[p].pc = "ab_probe"
  /\ LET c == [call[p] EXCEPT !.ea = Probed(@, r), !.req = NoReq]
         a == AfterResponse(auth, r, call[p].req.cookies)
         f == BeginFlow(a, servers, c)
     IN  IF ~r.throws /\ ProbeValid(r)
         THEN /\ auth' = [a EXCEPT !.isAuthenticated = TRUE]
              /\ servers' = servers
              /\ AuthReturns(p, c, TRUE)
         ELSE /\ auth' = f.auth
              /\ servers' = f.servers
              /\ call' = [call EXCEPT ![p] = f.call]
              /\ done' = done
  /\ UNCHANGED <<credentials, cache, ds, calls>>
  /\ Untouched

\* startAuthFlow: getPort answered; listen, new authPromise, open(authUrl)
FlowListen(p) ==
  /\ call[p].pc = "fl_port"
  /\ LET c == call[p]
     IN  /\ servers' = [servers EXCEPT ![c.srv] =
                          [@ EXCEPT !.server = c.id, !.authResolve = c.id,
                                    !.open = @ \cup {[flow |-> c.id, user |-> c.user]}]]
         /\ call' = [call EXCEPT ![p] = [c EXCEPT !.pc = "fl_open", !.promise = "pending"]]
  /\ UNCHANGED <<credentials, cache, auth, ds, done, calls>>
  /\ Untouched

\* startAuthFlow: open() answered; if it threw the flow closes and returns false
FlowOpen(p, opened) ==
  /\ call[p].pc = "fl_open"
  /\ LET c == call[p]
     IN  IF opened
         THEN /\ call' = [call EXCEPT ![p] = [c EXCEPT !.pc = "fl_wait"]]
              /\ UNCHANGED <<servers, done>>
         ELSE /\ servers' = [servers EXCEPT ![c.srv] = close(@)]
              /\ AuthReturns(p, c, FALSE)
  /\ UNCHANGED <<credentials, cache, auth, ds, calls>>
  /\ Untouched

\* startAuthFlow: the race is won by authPromise; close; authenticateWithBrowser
\* sets isAuthenticated and returns true
FlowResolved(p) ==
  /\ call[p].pc = "fl_wait"
  /\ call[p].promise = "resolved"
  /\ servers' = [servers EXCEPT ![call[p].srv] = close(@)]
  /\ auth' = [auth EXCEPT !.isAuthenticated = TRUE]
  /\ AuthReturns(p, call[p], TRUE)
  /\ UNCHANGED <<credentials, cache, ds, calls>>
  /\ Untouched

\* startAuthFlow whose 10 minute timer never fires.
FlowTimeoutNever(p) ==
  /\ call[p].pc = "fl_wait"
  /\ call[p].promise = "pending"
  /\ UNCHANGED <<servers, call, done>>
  /\ UNCHANGED <<credentials, cache, auth, ds, calls>>
  /\ Untouched

\* startAuthFlow: the race is won by the 10 minute timer; close; return false.
\* The call remembers that the timer won.
FlowTimeout(p) ==
  /\ call[p].pc = "fl_wait"
  /\ call[p].promise = "pending"
  /\ servers' = [servers EXCEPT ![call[p].srv] = close(@)]
  /\ AuthReturns(p, [call[p] EXCEPT !.promise = "timeout"], FALSE)
  /\ UNCHANGED <<credentials, cache, auth, ds, calls>>
  /\ Untouched

\* A call c of caller p returns.
ReturnOf(p, c, ok, data) ==
  /\ call' = [call EXCEPT ![p] = IdleCall]
  /\ done' = Append(done, [tool |-> c.tool, user |-> c.user, ok |-> ok, data |-> data])

\* makeAuthenticatedRequest(c.url) up to its first await: it throws without an
\* identity; for a URL of another host the store of this.currentUserEmail is
\* asked for the session; for one of the base host
\* ensureAuthenticated(this.currentUserEmail) is called, and the call goes on
\* for that identity.
makeAuthenticatedRequest(p, c) ==
  IF NoUserEmailSet(auth)
  THEN /\ ReturnOf(p, c, FALSE, NoUserEmailError)
       /\ auth' = auth
  ELSE IF CrossDomain(auth, c.url)
  THEN /\ auth' = ensureCredentialStore(auth, auth.currentUserEmail)
       /\ call' = [call EXCEPT ![p] =
                     [c EXCEPT !.pc = "mar_load", !.store = auth.currentUserEmail,
                               !.ea = NoEnsure, !.promise = "none"]]
       /\ done' = done
  ELSE LET e == EnterEnsure(auth, [c EXCEPT !.user = auth.currentUserEmail,
                                            !.promise = "none"])
       IN  /\ auth' = e.auth
           /\ call' = [call EXCEPT ![p] = e.call]
           /\ done' = done

\* search: ensureAuthenticated has returned (its result is not looked at);
\* makeAuthenticatedRequest for the directory URL
SearchRequest(p) ==
  /\ call[p].pc = "ea_ret" /\ call[p].tool = "search" /\ call[p].url = "none"
  /\ makeAuthenticatedRequest(p, [call[p] EXCEPT !.url = DirectoryHost])
  /\ UNCHANGED <<credentials, cache, ds, servers, calls>>
  /\ Untouched

\* a direct makeAuthenticatedRequest(url) on the channel
StartRequest(p, url) ==
  /\ call[p].pc = "idle"
  /\ calls' = calls + 1
  /\ makeAuthenticatedRequest(p, [NewCall("request", auth.currentUserEmail, FALSE)
                                    EXCEPT !.url = url])
  /\ UNCHANGED <<credentials, cache, ds, servers>>
  /\ Untouched

\* makeAuthenticatedRequest for a URL of the base host: ensureAuthenticated has
\* returned (its result is not looked at); makeRequest sends the cookie jar
RequestSend(p) ==
  /\ call[p].pc = "ea_ret" /\ call[p].url # "none"
  /\ call' = [call EXCEPT ![p] =
                [@ EXCEPT !.pc = "mr_fetch",
                          !.req = [sent |-> TRUE, cookies |-> auth.cookieJar]]]
  /\ UNCHANGED <<credentials, cache, auth, ds, servers, done, calls>>
  /\ Untouched

\* makeAuthenticatedRequest: loadCredentials answered; the stored cookies are
\* sent as they are, or the call throws for want of them
SearchLoad(p) ==
  /\ call[p].pc = "mar_load"
  /\ LET c == call[p]
         creds == loadCredentials(credentials, c.store)
     IN  IF HasSession(creds)
         THEN /\ call' = [call EXCEPT ![p] =
                            [c EXCEPT !.pc = "mar_fetch",
                                      !.req = [sent |-> TRUE,
                                               cookies |-> setCookies({}, StoredCookies(creds))]]]
              /\ done' = done
         ELSE Return(p, FALSE, CrossDomainError(creds))
  /\ UNCHANGED <<credentials, cache, auth, ds, servers, calls>>
  /\ Untouched

\* makeAuthenticatedRequest of a direct call: the response is returned as it is
RequestFetch(p, r) ==
  /\ call[p].pc \in {"mar_fetch", "mr_fetch"} /\ call[p].tool = "request"
  /\ call[p].pc = "mar_fetch" => r \in FetchResponses
  /\ auth' = IF call[p].pc = "mr_fetch" THEN AfterResponse(auth, r, call[p].req.cookies)
             ELSE auth
  /\ Return(p, ~r.throws, IF r.throws THEN Error("fetch failed") ELSE r)
  /\ UNCHANGED <<credentials, cache, ds, servers, calls>>
  /\ Untouched

\* search: the directory page answered; it is parsed, written through the
\* cache instance held now, and returned
SearchFetch(p, r) ==
  /\ call[p].pc \in {"mar_fetch", "mr_fetch"} /\ call[p].tool = "search"
  /\ call[p].pc = "mar_fetch" => r \in FetchResponses
  /\ auth' = IF call[p].pc = "mr_fetch" THEN AfterResponse(auth, r, call[p].req.cookies)
             ELSE auth
  /\ LET c == call[p]
         owners == SessionOwners(c.req.cookies)
         results == IF r.urlHasLogin \/ owners = {}
                    THEN Results(NoEmail, c.user)
                    ELSE Results(CHOOSE o \in owners : TRUE, c.user)
     IN  IF r.throws \/ ~r.ok
         THEN /\ Return(p, FALSE, Null)
              /\ cache' = cache
         ELSE /\ cache' = CacheSet(cache, ds.cache, SearchParams(c.user, c.refresh),
                                   results, CacheTTLHours, now)
              /\ Return(p, TRUE, results)
  /\ UNCHANGED <<credentials, ds, servers, calls>>
  /\ Untouched

\* the logout tool
Logout(p) ==
  /\ call[p].pc = "idle"
  /\ calls' = calls + 1
  /\ auth' = logout(auth)
  /\ done' = Append(done, [tool |-> "logout", user |-> NoEmail, ok |-> TRUE, data |-> Null])
  /\ UNCHANGED <<credentials, cache, ds, servers, call>>
  /\ Untouched

\* the clear_credentials tool: clearStoredCredentials up to its await
StartClear(p) ==
  /\ call[p].pc = "idle"
  /\ calls' = calls + 1
  /\ IF auth.credentialStore # NoEmail
     THEN /\ call' = [call EXCEPT ![p] =
                        [NewCall("clear", NoEmail, FALSE) EXCEPT
                           !.pc = "cl_clear", !.store = auth.credentialStore]]
          /\ UNCHANGED <<auth, done>>
     ELSE /\ auth' = logout(auth)
          /\ done' = Append(done, [tool |-> "clear", user |-> NoEmail, ok |-> TRUE,
                                   data |-> Null])
          /\ call' = call
  /\ UNCHANGED <<credentials, cache, ds, servers>>
  /\ Untouched

\* clearStoredCredentials: the document is deleted, then logout
ClearDone(p) ==
  /\ call[p].pc = "cl_clear"
  /\ credentials' = clearCredentials(credentials, call[p].store)
  /\ auth' = logout(auth)
  /\ Return(p, TRUE, Null)
  /\ UNCHANGED <<cache, ds, servers, calls>>
  /\ Untouched

\* authResolve(true) on an instance: the promise of the flow that made the
\* resolver is resolved if it is still pending.
Resolve(srv) ==
  [q \in Procs |->
     IF srv.authResolve # 0 /\ call[q].id = srv.authResolve /\ call[q].promise = "pending"
     THEN [call[q] EXCEPT !.promise = "resolved"]
     ELSE call[q]]

\* What handleCallback and handleLoginSubmission do with a captured session:
\* save it under the instance's own email, resolve, and set the close timer.
Capture(i, cookieHeader) ==
  /\ credentials' = saveCredentials(credentials, servers[i].userEmail,
                       SessionCredentials(servers[i].userEmail, cookieHeader, now))
  /\ call' = Resolve(servers[i])
  /\ servers' = [servers EXCEPT ![i].closeTimer = TRUE]

\* GET /callback from the browser of the person l.user, on a listener still open
Callback(i, l, cookieHeader) ==
  /\ l \in servers[i].open
  /\ IF cookieHeader = <<>> \/ ~isValidVeracrossSession(cookieHeader)
     THEN UNCHANGED <<credentials, call, servers>>
     ELSE Capture(i, cookieHeader)
  /\ UNCHANGED <<cache, auth, ds, done, calls>>
  /\ Untouched

\* POST /login with l.user's username and password: the server logs in to the
\* portal itself and captures the session it is given
LoginSubmission(i, l, loginResponse) ==
  /\ l \in servers[i].open
  /\ LET cookieString == <<SessionCookie(l.user)>>
     IN  IF ~loginSuccessful(loginResponse) \/ ~isValidVeracrossSession(cookieString)
         THEN UNCHANGED <<credentials, call, servers>>
         ELSE Capture(i, cookieString)
  /\ UNCHANGED <<cache, auth, ds, done, calls>>
  /\ Untouched

\* the setTimeout(() => this.close()) set when a session was captured
DelayedClose(i) ==
  /\ servers[i].closeTimer
  /\ servers' = [servers EXCEPT ![i] = [close(@) EXCEPT !.closeTimer = FALSE]]
  /\ UNCHANGED <<credentials, cache, auth, ds, call, done, calls>>
  /\ Untouched

CallbackHeaders(u) == {<<>>, <<TrackingCookie>>, <<TrackingCookie, SessionCookie(u)>>}

\* The user each caller works for when two callers run at once.
UserOf == [p \in Procs |-> IF p = "p1" THEN EmailA ELSE EmailB]

ToolCall(p, us) ==
  \/ \E u \in us, refresh \in BOOLEAN : StartSearch(p, u, refresh)
  \/ \E u \in us : StartAuthenticate(p, u)
  \/ Logout(p)
  \/ StartClear(p)

ResumeAuth(p) ==
  \/ EnsureLoad(p)
  \/ \E r \in Responses : EnsureProbe(p, r)
  \/ EnsureLoad2(p)
  \/ AuthHas(p)
  \/ AuthLoad(p)
  \/ \E r \in Responses : AuthProbe(p, r)
  \/ FlowListen(p)
  \/ \E opened \in BOOLEAN : FlowOpen(p, opened)
  \/ FlowResolved(p)
  \/ FlowTimeout(p)
  \/ SearchLoad(p)
  \/ ClearDone(p)

Resume(p) ==
  \/ ResumeAuth(p)
  \/ SearchCacheGet(p)
  \/ SearchRequest(p)
  \/ \E r \in Responses : SearchFetch(p, r)

Browser ==
  \/ \E i \in DOMAIN servers : \E l \in servers[i].open :
        \E h \in CallbackHeaders(l.user) : Callback(i, l, h)
  \/ \E i \in DOMAIN servers : \E l \in servers[i].open :
        \E r \in FlowLoginResponses : LoginSubmission(i, l, r)
  \/ \E i \in DOMAIN servers : DelayedClose(i)

\* The database as earlier server processes left it: for each user, nothing or
\* the session that user stored at login.
Init ==
  /\ \E S \in SUBSET Users :
       credentials = [h \in Handles |->
                        IF \E u \in S : hashEmail(u) = h
                        THEN StoredSession(CHOOSE u \in S : hashEmail(u) = h)
                        ELSE NoDoc]
  /\ cache = [slot \in Handles \X SearchHashes |-> NoDoc]
  /\ now = 0
  /\ lastRead = NoRead
  /\ InitRegVars
  /\ InitAuthVars

Next ==
  \/ calls < MaxCalls /\ \E p \in Procs : ToolCall(p, {UserOf[p]})
  \/ \E p \in Procs : Resume(p)
  \/ Browser

Spec == Init /\ [][Next]_vars

NextSeq ==
  \/ calls < MaxCallsSeq /\ AllCallsIdle /\ ToolCall("p1", Users)
  \/ Resume("p1")
  \/ Browser

SpecSeq == Init /\ [][NextSeq]_vars

\* C1: every portal request sent on behalf of a search for user U carries U's
\* session cookie and nobody else's, whatever other calls are in progress.
C1_OwnCookies ==
  \A p \in Procs :
    (call[p].tool = "search" /\ call[p].req.sent) =>
       SessionOwners(call[p].req.cookies) = {call[p].user}

\* C2: results fetched by a search for A are written only into A's cache
\* partition, and the results a search for A returns were fetched by a search for A.
C2_OwnPartition ==
  /\ \A slot \in DOMAIN cache :
       cache[slot] # NoDoc => hashEmail(cache[slot].data.fetchedFor) = slot[1]
  /\ \A i \in DOMAIN done :
       (done[i].tool = "search" /\ done[i].ok) => done[i].data.fetchedFor = done[i].user

\* The session cookies stored under u's handle belong to these people.
StoredOwners(u) ==
  LET creds == loadCredentials(credentials, u)
  IN  IF HasSession(creds) THEN SessionOwners(setCookies({}, StoredCookies(creds))) ELSE {}

\* C3: with calls issued one at a time, once login(A) and then login(B) have
\* both returned success, the session stored under A's handle is A's and the
\* session stored under B's handle is B's.
C3_SessionUnderOwnHandle ==
  \A i \in DOMAIN done :
    ( /\ i + 1 = Len(done) /\ AllCallsIdle
      /\ done[i].tool = "login" /\ done[i].ok
      /\ done[i + 1].tool = "login" /\ done[i + 1].ok
      /\ done[i].user # done[i + 1].user )
    => /\ StoredOwners(done[i].user) = {done[i].user}
       /\ StoredOwners(done[i + 1].user) = {done[i + 1].user}

\* C7: an ensureAuthenticated(U) entered while the channel is marked
\* authenticated and its current identity is U returns true having sent no
\* request and read no store.
C7_CheapPath ==
  \A p \in Procs :
    (call[p].pc = "ea_ret" /\ call[p].ea.trusted) =>
       /\ call[p].ea.result = "true"
       /\ call[p].ea.net = 0
       /\ call[p].ea.reads = 0

\* ensureAuthenticated has just returned on the cheap path.
C7_Witness ==
  \E p \in Procs :
    /\ call[p].pc = "ea_ret" /\ call[p].ea.trusted
    /\ call[p].ea.result = "true" /\ call[p].ea.net = 0

\* C8: an ensureAuthenticated(U) that loaded U's stored session and got a probe
\* response that was successful with a final URL free of 'login' returns true
\* and has invoked startAuthFlow zero times.
C8_ValidSessionNoFlow ==
  \A p \in Procs :
    (call[p].pc = "ea_ret" /\ call[p].ea.loaded /\ call[p].ea.probeOk) =>
       /\ call[p].ea.result = "true"
       /\ call[p].ea.flows = 0

\* ensureAuthenticated has just returned true on a stored session that probed valid.
C8_Witness ==
  \E p \in Procs :
    /\ call[p].pc = "ea_ret" /\ call[p].ea.loaded /\ call[p].ea.probeOk
    /\ ~call[p].ea.trusted /\ call[p].ea.net = 1 /\ call[p].ea.result = "true"

\* C9: an ensureAuthenticated that loaded a stored session returns true without
\* the login flow only after a probe response that was successful with a final
\* URL free of 'login'; when no probe response was such, and in particular when
\* the probes come back successful with 'login' in the final URL, the call has
\* invoked startAuthFlow exactly once when it returns.
C9_TrustOnlyValidProbe ==
  \A p \in Procs :
    (call[p].pc = "ea_ret" /\ call[p].ea.loaded) =>
       /\ (call[p].ea.result = "true" /\ call[p].ea.flows = 0) => call[p].ea.probeOk
       /\ ~call[p].ea.probeOk => call[p].ea.flows = 1
       /\ call[p].ea.probesLogin => call[p].ea.flows = 1

\* ensureAuthenticated has just returned after a stored session probed as a
\* login page and the login flow ran.
C9_Witness ==
  \E p \in Procs :
    /\ call[p].pc = "ea_ret" /\ call[p].ea.loaded /\ call[p].ea.probesLogin
    /\ call[p].ea.net = 2 /\ call[p].ea.flows = 1 /\ call[p].ea.result = "true"

\* C10: when ensureAuthenticated(U) returns false the channel is not marked
\* authenticated, so the next ensureAuthenticated(U) cannot return at its first
\* test, and the call invoked startAuthFlow at most once.
C10_FailureLeavesUntrusted ==
  \A p \in Procs :
    (call[p].pc = "ea_ret" /\ call[p].ea.result = "false") =>
       /\ ~auth.isAuthenticated
       /\ ~CheapPath(auth, call[p].user)
       /\ call[p].ea.flows <= 1

(***************************************************************************)
(* SpecSameUser: as Spec, with both callers working for the same user.     *)
(***************************************************************************)
NextSameUser ==
  \/ calls < MaxCalls /\ \E p \in Procs : ToolCall(p, {EmailA})
  \/ \E p \in Procs : Resume(p)
  \/ Browser

SpecSameUser == Init /\ [][NextSameUser]_vars

\* The positions of a search inside its ensureAuthenticated call.
EnsurePending == {"ea_load", "ea_probe", "ea_load2", "ab_has", "ab_load", "ab_probe",
                  "fl_port", "fl_open", "fl_wait"}

\* C11: while an ensureAuthenticated(U) of one tool call is still pending, no
\* other tool call for the same U has its authenticated portal request in
\* flight.
C11_NoRequestWhilePending ==
  \A p, q \in Procs :
    ( /\ p # q
      /\ call[q].tool = "search" /\ call[q].pc \in EnsurePending
      /\ call[p].tool = "search" /\ call[p].user = call[q].user )
    => ~(call[p].pc = "mar_fetch" /\ call[p].req.sent)

\* C12: whenever the channel's current identity changes from one user to
\* another, the channel is afterwards not marked authenticated and its cookie
\* jar holds no session cookie of the previous user.
C12_SwitchDestroysChannel ==
  [][ (auth.currentUserEmail # NoEmail /\ auth'.currentUserEmail # auth.currentUserEmail)
      => /\ ~auth'.isAuthenticated
         /\ auth.currentUserEmail \notin SessionOwners(auth'.cookieJar) ]_vars

\* The positions of a call inside startAuthFlow once its server listens.
FlowListening == {"fl_open", "fl_wait"}

\* C13: every listener still open was opened by a startAuthFlow that has not
\* returned yet: once a flow has returned (success, timeout or error) no server
\* it opened is listening.
C13_ListenerClosedOnReturn ==
  \A i \in DOMAIN servers : \A l \in servers[i].open :
    \E p \in Procs : call[p].id = l.flow /\ call[p].pc \in FlowListening

\* The listeners open on any BrowserAuthServer instance.
OpenListeners == UNION {servers[i].open : i \in DOMAIN servers}

\* C14: for each user at most one login-flow listener is open at any time.
C14_OneListenerPerUser ==
  \A u \in Users : Cardinality({l \in OpenListeners : l.user = u}) <= 1

(***************************************************************************)
(* SpecSeqFair: SpecSeq in which every answer a call awaits (the store, the *)
(* portal, getPort, open, the flow's timer) arrives eventually.             *)
(***************************************************************************)
SpecSeqFair == SpecSeq /\ WF_vars(Resume("p1"))

\* The positions of a call inside startAuthFlow.
FlowPending == {"fl_port", "fl_open", "fl_wait"}

\* What the authenticateWithBrowser of caller p returned last.
LastReturn(p) ==
  IF call[p].pc = "ea_ret" THEN call[p].ea.result = "true" ELSE done[Len(done)].ok

\* C15: every startAuthFlow started by the caller (p1, the one caller of
\* SpecSeq) returns; when a flow leaves its wait with the
\* promise resolved it returns true, and when it leaves it with the promise
\* pending (the timer fired) it returns false and its listener is closed.
C15_FlowTerminates ==
  /\ (call["p1"].pc \in FlowPending) ~> (call["p1"].pc \notin FlowPending)
  /\ [][\A p \in Procs :
          (call[p].pc = "fl_wait" /\ call'[p].pc # "fl_wait") =>
             /\ call[p].promise = "resolved" => LastReturn(p)'
             /\ call[p].promise = "pending" =>
                  /\ ~LastReturn(p)'
                  /\ \A l \in OpenListeners' : l.flow # call[p].id]_vars

\* A search whose login flow ended by its timer has got false from
\* ensureAuthenticated, and the flow's listener is closed.
C15_Witness ==
  \E p \in Procs :
    /\ call[p].pc = "ea_ret" /\ call[p].promise = "timeout"
    /\ call[p].ea.flows = 1 /\ call[p].ea.result = "false"
    /\ OpenListeners = {}

\* The cookie header has a cookie with a session marker.
Marked(h) == \E k \in DOMAIN h : HasMarker(h[k])

\* The document stored for u is a session whose cookies have a session marker.
MarkedSession(coll, u) ==
  LET creds == loadCredentials(coll, u)
  IN  HasSession(creds) /\ Marked(StoredCookies(creds))

\* C16: a session is stored, and a flow's promise is resolved, only with a
\* cookie header that has a session marker; a callback without cookies or
\* without a marker stores nothing, resolves nothing and leaves the listener
\* as it was.
C16_RejectedCallback ==
  [][ /\ \A u \in Users :
           ( /\ loadCredentials(credentials', u) # loadCredentials(credentials, u)
             /\ loadCredentials(credentials', u) # Null )
           => MarkedSession(credentials', u)
      /\ \A p \in Procs :
           (call[p].promise = "pending" /\ call'[p].promise = "resolved")
           => MarkedSession(credentials', servers[call[p].srv].userEmail)
      /\ \A i \in DOMAIN servers : \A l \in servers[i].open :
           \A h \in CallbackHeaders(l.user) :
             (~Marked(h) /\ Callback(i, l, h)) => UNCHANGED <<credentials, servers, call>>
    ]_vars

\* A flow is waiting with its promise resolved by a captured session.
C16_Witness ==
  \E p \in Procs :
    /\ call[p].pc = "fl_wait" /\ call[p].promise = "resolved"
    /\ MarkedSession(credentials, servers[call[p].srv].userEmail)
    /\ servers[call[p].srv].closeTimer

(***************************************************************************)
(* SpecLogin: one programmatic login, by VeracrossAuth.login of src/auth.ts *)
(* or by BrowserAuthServer.handleLoginSubmission, for any response of the   *)
(* portal to the submitted password.                                        *)
(***************************************************************************)
\* VeracrossAuth.login of src/auth.ts from the response to its POST: success
\* marks the channel authenticated; nothing is stored.
Login(loginResponse) ==
  /\ attempt.by = "none"
  /\ attempt' = [by |-> "login", response |-> loginResponse,
                 success |-> loginReturns(loginResponse),
                 isAuthenticated |-> loginReturns(loginResponse), stored |-> FALSE]
  /\ UNCHANGED <<storeVars, now, regVars, auth, ds, servers, call, done, calls, applied>>

\* handleLoginSubmission from the response to its POST: on success the cookies
\* of its temporary jar are stored if they pass isValidVeracrossSession.
HandleLoginSubmission(loginResponse, cookieString) ==
  /\ attempt.by = "none"
  /\ attempt' = [by |-> "handleLoginSubmission", response |-> loginResponse,
                 success |-> loginSuccessful(loginResponse),
                 isAuthenticated |-> FALSE,
                 stored |-> /\ loginSuccessful(loginResponse)
                            /\ cookieString # <<>>
                            /\ isValidVeracrossSession(cookieString)]
  /\ UNCHANGED <<storeVars, now, regVars, auth, ds, servers, call, done, calls, applied>>

NextLogin ==
  \/ \E r \in LoginResponses : Login(r)
  \/ \E r \in LoginResponses : \E u \in Users :
        \E h \in CallbackHeaders(u) : HandleLoginSubmission(r, h)

SpecLogin == Init /\ [][NextLogin]_vars

\* The response is a redirect to a location without 'login', or a 200 whose
\* body has none of the failure words.
ClearSuccess(r) ==
  \/ r.status = 302 /\ r.location \in {"/csg/parent"}
  \/ r.status = 200 /\ r.body \cap {"Invalid", "incorrect", "error"} = {}

\* C17: a programmatic login is classified as success only for a redirect to
\* a location without 'login' or a 200 response without failure words; for
\* every other response it is a failure, no session is stored and the channel
\* is not marked authenticated.
C17_AmbiguousIsFailure ==
  attempt.by # "none" =>
    /\ attempt.success => ClearSuccess(attempt.response)
    /\ ~ClearSuccess(attempt.response) => ~attempt.stored /\ ~attempt.isAuthenticated

(***************************************************************************)
(* SpecChannel: the public methods of one VeracrossAuth (the login, logout *)
(* and clear tools and direct makeAuthenticatedRequest calls) called       *)
(* one at a time, for a base URL on either host and a                      *)
(* credential store that holds, for each user, nothing, a session, a       *)
(* session without cookies, or a username and password.                    *)
(***************************************************************************)
\* ensureAuthenticated or attemptPasswordLogin returns r to its caller.
EnsureReturns(p, c, r) ==
  /\ call' = [call EXCEPT ![p] = [c EXCEPT !.pc = "ea_ret", !.req = NoReq,
                                         !.ea.result = IF r THEN "true" ELSE "false"]]
  /\ done' = done

\* ensureAuthenticated: the second loadCredentials answered with a password that
\* is not JSON; attemptPasswordLogin requests the password page
EnsurePassword(p) ==
  /\ call[p].pc = "ea_load2"
  /\ LET creds == loadCredentials(credentials, call[p].store)
     IN  creds # Null /\ ~IsJSON(creds.password)
  /\ call' = [call EXCEPT ![p] =
                [@ EXCEPT !.pc = "pw_page", !.ea.reads = @ + 1, !.ea.net = @ + 1,
                          !.req = [sent |-> TRUE, cookies |-> auth.cookieJar]]]
  /\ UNCHANGED <<credentials, cache, auth, ds, servers, done, calls>>
  /\ Untouched

\* attemptPasswordLogin: the password page answered; the password is posted
PasswordPage(p, r) ==
  /\ call[p].pc = "pw_page"
  /\ LET c == call[p]
         a == AfterResponse(auth, r, c.req.cookies)
     IN  /\ auth' = a
         /\ IF r.throws \/ ~r.ok
            THEN EnsureReturns(p, c, FALSE)
            ELSE /\ call' = [call EXCEPT ![p] =
                               [c EXCEPT !.pc = "pw_post", !.ea.net = @ + 1,
                                         !.req = [sent |-> TRUE, cookies |-> a.cookieJar]]]
                 /\ done' = done
  /\ UNCHANGED <<credentials, cache, ds, servers, calls>>
  /\ Untouched

\* The responses to the POST of attemptPasswordLogin: any status and location.
PasswordResponses == {r \in LoginResponses : r.body = {}}

\* attemptPasswordLogin: the POST answered, with or without a session cookie for
\* the user; a redirect with a location is followed
PasswordPost(p, loginResponse, granted) ==
  /\ call[p].pc = "pw_post"
  /\ LET c == call[p]
         a == IF granted
              THEN [auth EXCEPT !.cookieJar = setCookies(@, <<SessionCookie(c.user)>>)]
              ELSE auth
     IN  /\ auth' = a
         /\ IF /\ loginResponse.status >= 300 /\ loginResponse.status < 400
               /\ loginResponse.location # "none"
            THEN /\ call' = [call EXCEPT ![p] =
                               [c EXCEPT !.pc = "pw_redirect", !.ea.net = @ + 1,
                                         !.req = [sent |-> TRUE, cookies |-> a.cookieJar]]]
                 /\ done' = done
            ELSE EnsureReturns(p, c, FALSE)
  /\ UNCHANGED <<credentials, cache, ds, servers, calls>>
  /\ Untouched

\* attemptPasswordLogin: the redirect target answered; if ok the jar's cookies
\* are taken as the session and saved
PasswordRedirect(p, r) ==
  /\ call[p].pc = "pw_redirect"
  /\ LET c == call[p]
         a == AfterResponse(auth, r, c.req.cookies)
     IN  IF ~r.throws /\ r.ok
         THEN /\ auth' = ensureCredentialStore(a, c.user)
              /\ call' = [call EXCEPT ![p] =
                            [c EXCEPT !.pc = "pw_save", !.store = c.user,
                                      !.req = [sent |-> FALSE, cookies |-> a.cookieJar]]]
              /\ done' = done
         ELSE /\ auth' = a
              /\ EnsureReturns(p, c, FALSE)
  /\ UNCHANGED <<credentials, cache, ds, servers, calls>>
  /\ Untouched

\* attemptPasswordLogin: saveCredentials answered; isAuthenticated = true
PasswordSave(p) ==
  /\ call[p].pc = "pw_save"
  /\ LET c == call[p]
     IN  /\ credentials' = saveCredentials(credentials, c.store,
                             SessionCredentials(c.user, getCookieString(c.req.cookies), now))
         /\ auth' = [auth EXCEPT !.isAuthenticated = TRUE]
         /\ EnsureReturns(p, c, TRUE)
  /\ UNCHANGED <<cache, ds, servers, calls>>
  /\ Untouched

ResumeChannel(p) ==
  \/ RequestSend(p)
  \/ \E r \in Responses : RequestFetch(p, r)
  \/ EnsurePassword(p)
  \/ \E r \in Responses : PasswordPage(p, r)
  \/ \E r \in PasswordResponses : \E granted \in BOOLEAN : PasswordPost(p, r, granted)
  \/ \E r \in Responses : PasswordRedirect(p, r)
  \/ PasswordSave(p)

\* The documents a user's handle may hold when the server starts.
StoredDocs(u) ==
  LET none == [h \in Handles |-> NoDoc]
  IN  { NoDoc,
        StoredSession(u),
        saveCredentials(none, u, SessionCredentials(u, <<>>, 0))[hashEmail(u)],
        saveCredentials(none, u, [username |-> u, password |-> <<"text", "pw">>])[hashEmail(u)] }

InitChannel ==
  /\ \E da \in StoredDocs(EmailA), db \in StoredDocs(EmailB) :
       credentials = [h \in Handles |->
                        IF h = hashEmail(EmailA) THEN da
                        ELSE IF h = hashEmail(EmailB) THEN db ELSE NoDoc]
  /\ \E host \in {BaseHost, DirectoryHost} : auth = [InitAuth EXCEPT !.baseUrl = host]
  /\ cache = [slot \in Handles \X SearchHashes |-> NoDoc]
  /\ now = 0
  /\ lastRead = NoRead
  /\ InitRegVars
  /\ attempt = NoAttempt
  /\ applied = NoApplied
  /\ ds = InitDs
  /\ servers = <<>>
  /\ call = [p \in Procs |-> IdleCall]
  /\ done = <<>>
  /\ calls = 0

NextChannel ==
  \/ /\ calls < MaxCallsSeq /\ AllCallsIdle
     /\ \/ \E u \in Users : StartAuthenticate("p1", u)
        \/ Logout("p1")
        \/ StartClear("p1")
        \/ \E url \in {BaseHost, DirectoryHost} : StartRequest("p1", url)
  \/ ResumeAuth("p1")
  \/ ResumeChannel("p1")
  \/ Browser

SpecChannel == InitChannel /\ [][NextChannel]_vars

\* The cookies of the session stored for u, as makeAuthenticatedRequest sends them.
StoredCookieSet(u) == setCookies({}, StoredCookies(loadCredentials(credentials, u)))

\* C18: a makeAuthenticatedRequest in flight for a URL of another host than the
\* base URL's was sent without ensureAuthenticated and carries exactly the
\* cookies of the session stored for the current user; one in flight for a URL
\* of the base host was sent after ensureAuthenticated returned and carries
\* the cookie jar.
C18_CrossDomainBypassesJar ==
  \A p \in Procs :
    (call[p].url # "none" /\ call[p].pc \in {"mar_fetch", "mr_fetch"}) =>
       /\ call[p].req.sent
       /\ IF call[p].url # auth.baseUrl
          THEN /\ call[p].pc = "mar_fetch"
               /\ ~call[p].ea.entered
               /\ call[p].req.cookies = StoredCookieSet(auth.currentUserEmail)
          ELSE /\ call[p].pc = "mr_fetch"
               /\ call[p].ea.entered /\ call[p].ea.result # "none"
               /\ call[p].req.cookies = auth.cookieJar

\* A direct request to another host is in flight with the stored session's
\* cookies while the cookie jar holds none of them.
C18_Witness ==
  \E p \in Procs :
    /\ call[p].tool = "request" /\ call[p].pc = "mar_fetch"
    /\ call[p].url # auth.baseUrl
    /\ call[p].req.cookies # {} /\ auth.cookieJar = {}

\* The three errors of a cross-domain request without usable stored cookies.
ExpectedCrossDomainError(creds) ==
  CASE creds = Null -> [error |-> "No stored credentials found for cross-domain request"]
    [] creds # Null /\ ~IsJSON(creds.password) ->
         [error |-> "Invalid session data for cross-domain request"]
    [] OTHER -> [error |-> "No session cookies found for cross-domain request"]

\* C19: when a cross-domain makeAuthenticatedRequest gets the stored
\* credentials of the current user and they are absent, not session JSON, or a
\* session without cookies, the call ends at once with the cross-domain error
\* for that case, no request is sent and the channel is left as it was.
C19_CrossDomainError ==
  [][ \A p \in Procs :
        ( /\ call[p].pc = "mar_load" /\ call'[p].pc # "mar_load"
          /\ ~HasSession(loadCredentials(credentials, auth.currentUserEmail)) )
        => /\ call'[p].pc = "idle" /\ ~call'[p].req.sent
           /\ done' = Append(done,
                [tool |-> call[p].tool, user |-> call[p].user, ok |-> FALSE,
                 data |-> ExpectedCrossDomainError(
                            loadCredentials(credentials, auth.currentUserEmail))])
           /\ auth' = auth /\ credentials' = credentials
    ]_vars

\* A direct request to another host has failed on a stored password that is
\* not session JSON.
C19_Witness ==
  \E i \in DOMAIN done :
    /\ done[i].tool = "request" /\ ~done[i].ok
    /\ done[i].data = [error |-> "Invalid session data for cross-domain request"]

\* C20: a makeAuthenticatedRequest called while the channel has no identity
\* returns at once with the 'No user email set' error: the step that calls it
\* already records the failure, leaves no call pending, and changes neither
\* the channel nor the store.
C20_NoIdentityFailsFast ==
  [][ \A p \in Procs : \A url \in {BaseHost, DirectoryHost} :
        (auth.currentUserEmail = NoEmail /\ StartRequest(p, url))
        => /\ done' = Append(done, [tool |-> "request", user |-> NoEmail, ok |-> FALSE,
                                    data |-> [error |-> "No user email set. Please authenticate first."]])
           /\ call' = call
           /\ auth' = auth /\ credentials' = credentials /\ servers' = servers
    ]_vars

\* A direct request made on a channel that never had an identity has failed.
C20_Witness ==
  \E i \in DOMAIN done :
    /\ done[i].tool = "request" /\ done[i].user = NoEmail /\ ~done[i].ok
    /\ done[i].data = NoUserEmailError
    /\ auth.currentUserEmail = NoEmail /\ AllCallsIdle

\* The call that returned last is a logout.
LogoutWasLast == Len(done) > 0 /\ done[Len(done)].tool = "logout"

\* C21: a logout leaves the channel not marked authenticated and with an empty
\* cookie jar, leaves every stored document as it was, and leaves the channel
\* in a state from which ensureAuthenticated(U) cannot return at its first
\* test for any U; with calls issued one at a time, the ensureAuthenticated of
\* the call that follows a logout was not entered on a trusted channel.
C21_Logout ==
  /\ [][ \A p \in Procs :
           Logout(p) =>
             /\ ~auth'.isAuthenticated
             /\ auth'.cookieJar = {}
             /\ credentials' = credentials
             /\ \A u \in Users : loadCredentials(credentials', u) = loadCredentials(credentials, u)
             /\ \A u \in Users : ~CheapPath(auth', u) ]_vars
  /\ [](\A p \in Procs :
          (LogoutWasLast /\ call[p].ea.entered) => ~call[p].ea.trusted)

\* A login that found its stored session valid put the session cookie into
\* the jar and marked the channel authenticated; the logout after it has left
\* the channel untrusted with an empty jar and the session still stored.
C21_Witness ==
  /\ Len(done) = 2 /\ AllCallsIdle /\ servers = <<>>
  /\ done[1].tool = "login" /\ done[1].ok
  /\ done[2].tool = "logout"
  /\ ~auth.isAuthenticated /\ auth.cookieJar = {}
  /\ HasSession(loadCredentials(credentials, done[1].user))

SavedBy(e) == SessionCredentials(e, <<SessionCookie(toLowerCase(e))>>, 0)

\* C23: a load by an instance for an identity that differs only in letter case
\* from the identity whose instance saved the document returns the secret saved.
C23_CaseInsensitiveLoad ==
  ( /\ lastRead.op = "load" /\ lastRead.writer # NoEmail
    /\ toLowerCase(lastRead.writer) = toLowerCase(lastRead.by) )
  => lastRead.result = SavedBy(lastRead.writer)

(***************************************************************************)
(* SpecFunctions: the pure functions of the stores applied to inputs drawn *)
(* from bounded sets; applied holds the last pair of applications.         *)
(***************************************************************************)
\* Identity strings: two local parts and one domain, in either letter case.
Identities == {<<c, "@", d>> : c \in {"a", "A", "b", "B"}, d \in {"x", "X"}}

Components == {"credentials", "cache", "users"}

\* The handle the component derives for an email.
HandleOf(component, email) ==
  CASE component = "credentials" -> hashEmail(email)
    [] component = "cache"       -> hashEmailCache(email)
    [] component = "users"       -> hashEmailUsers(email)

\* Two components derive the handles of two identity strings.
ApplyHashEmail(c1, e1, c2, e2) ==
  /\ applied' = [op |-> "hashEmail", components |-> <<c1, c2>>, emails |-> <<e1, e2>>,
                 handles |-> <<HandleOf(c1, e1), HandleOf(c2, e2)>>]
  /\ UNCHANGED <<storeVars, now, regVars, auth, ds, servers, call, done, calls, attempt>>

\* The search fields of the bounded inputs and the values each may have.
FieldValues == [firstName |-> {"Ann", "Bob"}, lastName |-> {"Lee"},
                refresh |-> {"true", "false"}, userEmail |-> {"a@x", "b@x"}]

\* The values an object may give to the keys K: one of its values per field.
ValuesOf(K) ==
  {val \in [K -> UNION {FieldValues[k] : k \in K}] : \A k \in K : val[k] \in FieldValues[k]}

\* The orders in which an object may hold the keys K.
KeyOrders(K) ==
  {s \in [1 .. Cardinality(K) -> K] : \A i, j \in DOMAIN s : s[i] = s[j] => i = j}

\* Every params object over the fields: a set of keys, an insertion order and
\* a value for each key.
ParamObjects ==
  UNION { UNION { {Params(keys, val) : val \in ValuesOf(K)}
                  : keys \in KeyOrders(K) }
          : K \in SUBSET DOMAIN FieldValues }

\* getCacheKey is applied to two params objects.
ApplyGetCacheKey(params1, params2) ==
  /\ applied' = [op |-> "getCacheKey", params |-> <<params1, params2>>,
                 keys |-> <<getCacheKey(params1), getCacheKey(params2)>>]
  /\ UNCHANGED <<storeVars, now, regVars, auth, ds, servers, call, done, calls, attempt>>

\* Each behaviour applies one function once, to inputs of its choice.
NextFunctions ==
  \/ /\ applied = NoApplied
     /\ \E c1, c2 \in Components : \E e1, e2 \in Identities : ApplyHashEmail(c1, e1, c2, e2)
  \/ /\ applied = NoApplied
     /\ \E params1, params2 \in ParamObjects : ApplyGetCacheKey(params1, params2)

SpecFunctions == InitStore /\ [][NextFunctions]_vars

\* C24: the handles any two of the components derive for two identity strings
\* are equal exactly when the lowercase forms of the strings are equal.
C24_SameHandle ==
  applied.op = "hashEmail" =>
    ( (applied.handles[1] = applied.handles[2])
      <=> (toLowerCase(applied.emails[1]) = toLowerCase(applied.emails[2])) )

\* The credential store and the cache have derived one handle for two
\* spellings of one address.
C24_Witness ==
  /\ applied.op = "hashEmail"
  /\ applied.components = <<"credentials", "cache">>
  /\ applied.emails = <<(<<"A", "@", "x">>), (<<"a", "@", "X">>)>>
  /\ applied.handles[1] = applied.handles[2]

(***************************************************************************)
(* SpecCorrupt: the calls of SpecSeq on a store in which a@x's document is *)
(* a session, a blob encrypted under another key, or a blob whose          *)
(* plaintext is not JSON.                                                  *)
(***************************************************************************)
\* A document for u that was encrypted under a key made from another master key.
WrongKeyDoc(u) ==
  [userHash |-> hashEmail(u),
   encryptedCredentials |->
     encrypt(JSONstringify(SessionCredentials(u, <<SessionCookie(u)>>, 0)),
             deriveKey("other", u)),
   writer |-> u]

\* A document for u whose ciphertext decrypts to text that JSON.parse rejects.
UnparsableDoc(u) ==
  [userHash |-> hashEmail(u),
   encryptedCredentials |-> encrypt(<<"text", "garbage">>, deriveKey(MasterKey, u)),
   writer |-> u]

Corrupt(u) ==
  u \in Users /\ credentials[hashEmail(u)] \in {WrongKeyDoc(u), UnparsableDoc(u)}

InitCorrupt ==
  /\ \E d \in {StoredSession(EmailA), WrongKeyDoc(EmailA), UnparsableDoc(EmailA)} :
       credentials = [h \in Handles |-> IF h = hashEmail(EmailA) THEN d ELSE NoDoc]
  /\ cache = [slot \in Handles \X SearchHashes |-> NoDoc]
  /\ now = 0
  /\ lastRead = NoRead
  /\ InitRegVars
  /\ InitAuthVars

SpecCorrupt == InitCorrupt /\ [][NextSeq]_vars

\* C25: loadCredentials gives null for a document that cannot be decrypted or
\* parsed; an ensureAuthenticated that meets such a document goes on, without
\* returning and without a request, from loadStoredSession to its second
\* load, to authenticateWithBrowser and into startAuthFlow; and every
\* ensureAuthenticated that returns without having loaded a session or taken
\* the cheap path has run the login flow once.
C25_CorruptIsAbsent ==
  /\ [](\A u \in Users : Corrupt(u) => loadCredentials(credentials, u) = Null)
  /\ [][ \A p \in Procs :
           (Corrupt(call[p].store) /\ call'[p].pc # call[p].pc) =>
              /\ call[p].pc = "ea_load" => call'[p].pc = "ea_load2"
              /\ call[p].pc = "ea_load2" => call'[p].pc = "ab_has"
              /\ call[p].pc = "ab_has" =>
                   call'[p].pc = "fl_port" /\ call'[p].ea.flows = call[p].ea.flows + 1
              /\ call[p].pc \in {"ea_load", "ea_load2", "ab_has"} =>
                   /\ done' = done
                   /\ ~call'[p].req.sent /\ call'[p].ea.net = 0 ]_vars
  /\ [](\A p \in Procs :
          (call[p].pc = "ea_ret" /\ ~call[p].ea.trusted /\ ~call[p].ea.loaded) =>
             call[p].ea.flows = 1)

\* An ensureAuthenticated has reached startAuthFlow after three reads of a
\* document that cannot be decrypted, with no request sent.
C25_Witness ==
  \E p \in Procs :
    /\ call[p].tool = "search" /\ call[p].pc = "fl_port"
    /\ Corrupt(call[p].user) /\ credentials[hashEmail(call[p].user)] = WrongKeyDoc(call[p].user)
    /\ call[p].ea.entered /\ call[p].ea.reads = 3 /\ call[p].ea.net = 0
    /\ call[p].ea.flows = 1

\* A get made later than the expiresAt of the document in its slot is a miss.
ExpiredIsMiss ==
  (lastRead.op = "get" /\ lastRead.doc # NoDoc /\ lastRead.at > lastRead.doc.expiresAt)
  => lastRead.result = Null

\* A set replaces the document of its slot, expired or not, by the new entry
\* and leaves every other slot as it was.
SetOverwrites ==
  [][ \A e \in Emails, q \in StoreQueries :
        StoreCacheSet(e, q) =>
          LET slot == <<hashEmail(e), getCacheKey(q)>>
          IN  /\ cache'[slot].timestamp = now /\ cache'[slot].expiresAt = now + CacheTTLHours
              /\ cache'[slot].data = Results(toLowerCase(e), e)
              /\ \A other \in DOMAIN cache \ {slot} : cache'[other] = cache[other] ]_vars

\* A get made before the expiresAt of the document in its slot returns its data.
FreshIsHit ==
  (lastRead.op = "get" /\ lastRead.doc # NoDoc /\ lastRead.at < lastRead.doc.expiresAt)
  => lastRead.result = lastRead.doc.data

\* C26: a get made later than the entry's expiresAt is a miss although the
\* document is still in the collection, a set on a slot that holds an expired
\* entry replaces it, and a get made at or before the entry's expiresAt, for
\* the same user and signature, returns the stored data.
C26_CacheExpiry ==
  /\ ExpiredIsMiss
  /\ (lastRead.op = "get" /\ lastRead.doc # NoDoc /\ lastRead.at <= lastRead.doc.expiresAt)
       => lastRead.result = lastRead.doc.data

\* The two objects have the same fields with the same values, refresh and
\* userEmail aside.
SameSearchFields(params1, params2) ==
  \A k \in DOMAIN FieldValues \ {"refresh", "userEmail"} :
    /\ HasKey(params1, k) <=> HasKey(params2, k)
    /\ HasKey(params1, k) => params1.val[k] = params2.val[k]

\* C27: getCacheKey gives two params objects the same signature exactly when
\* they have the same fields with the same values apart from refresh and
\* userEmail, whatever the order of their keys.
C27_CacheKey ==
  applied.op = "getCacheKey" =>
    ( (applied.keys[1] = applied.keys[2])
      <=> SameSearchFields(applied.params[1], applied.params[2]) )

\* Two objects with the same names in different key order, one of them with
\* refresh and userEmail, have got the same signature.
C27_Witness ==
  /\ applied.op = "getCacheKey"
  /\ applied.params[1].keys = <<"firstName", "lastName">>
  /\ applied.params[2].keys = <<"userEmail", "lastName", "refresh", "firstName">>
  /\ applied.params[1].val.firstName = applied.params[2].val.firstName
  /\ applied.keys[1] = applied.keys[2]

\* The call of p is a login without userEmail.
Implicit(p) == reg[p].op = "login" /\ reg[p].email = NoEmail

\* The emails of the records under the handles hs.
EmailsOf(hs) == {users[h].email : h \in hs}

\* No record of the registry was used later than the record under h.
LastUsedIsGreatest(h) ==
  /\ users[h] # NoDoc
  /\ \A g \in RegHandles : users[g] # NoDoc => users[g].lastUsed <= users[h].lastUsed

\* C28: with calls issued one at a time, the resolution of a call without
\* userEmail returns the default user when there is one, otherwise a user with
\* the greatest lastUsed, and is absent only when the registry has no user; an
\* absent resolution ends the call with the identity error, with no
\* authentication step and nothing written.
C28_ImplicitResolution ==
  /\ [][\A p \in Procs : Implicit(p) =>
          /\ (reg[p].pc = "find_default" /\ reg'[p].pc # "find_default") =>
               IF DefaultHandles(users) # {}
               THEN /\ reg'[p].pc = "touch_default"
                    /\ reg'[p].user \in EmailsOf(DefaultHandles(users))
               ELSE reg'[p].pc = "most_recent"
          /\ (reg[p].pc = "touch_default" /\ reg'[p].pc # "touch_default") =>
               /\ reg'[p].pc = "has_users"
               /\ reg'[p].user = reg[p].user
               /\ reg'[p].user \in EmailsOf(DefaultHandles(users'))
          /\ (reg[p].pc = "most_recent" /\ reg'[p].pc # "most_recent") =>
               IF hasUsers(users)
               THEN /\ reg'[p].pc = "has_users"
                    /\ \E h \in RegHandles : /\ LastUsedIsGreatest(h)
                                              /\ reg'[p].user = users[h].email
               ELSE /\ reg'[p].pc = "idle"
                    /\ regLast'.result = "identity_error"
                    /\ UNCHANGED <<users, storeVars, authVars>>]_vars
  /\ [](\A p \in Procs : (Implicit(p) /\ reg[p].pc = "most_recent") =>
                            DefaultHandles(users) = {})
  /\ []((AllIdle /\ regLast.result = "identity_error") =>
          (~hasUsers(users) /\ regLast.email = NoEmail))

\* A login without userEmail is resolving to the most recently used of two
\* users, none of them the default: a@x was used before b@x.
C28_Witness ==
  /\ Implicit("p1") /\ reg["p1"].pc = "has_users"
  /\ DefaultHandles(users) = {}
  /\ users[hashEmail(EmailA)] # NoDoc /\ users[hashEmail(EmailB)] # NoDoc
  /\ users[hashEmail(EmailA)].lastUsed < users[hashEmail(EmailB)].lastUsed
  /\ reg["p1"].user = EmailB

(***************************************************************************)
(* SpecCheck: login and check_authentication, issued one at a time, three  *)
(* calls long, with the browser.  As in Spec the registry part of          *)
(* resolveUserEmail, which does not touch the credential store, is left    *)
(* out.                                                                    *)
(***************************************************************************)
MaxCallsCheck == 3

\* handleCheckAuthentication -> hasStoredSession(u) up to its loadCredentials
StartCheck(p, u) ==
  /\ call[p].pc = "idle"
  /\ calls' = calls + 1
  /\ auth' = ensureCredentialStore(auth, u)
  /\ call' = [call EXCEPT ![p] =
                [NewCall("check", u, FALSE) EXCEPT !.pc = "ck_has", !.store = u]]
  /\ UNCHANGED <<credentials, cache, ds, servers, done>>
  /\ Untouched

\* hasStoredSession answered: the tool reports whether a session is stored
CheckHas(p) ==
  /\ call[p].pc = "ck_has"
  /\ Return(p, TRUE, [authenticated |->
                        HasSession(loadCredentials(credentials, call[p].store))])
  /\ UNCHANGED <<credentials, cache, auth, ds, servers, calls>>
  /\ Untouched

NextCheck ==
  \/ calls < MaxCallsCheck /\ AllCallsIdle /\ \E u \in Users : StartAuthenticate("p1", u)
  \/ calls < MaxCallsCheck /\ AllCallsIdle /\ \E u \in Users : StartCheck("p1", u)
  \/ AuthHas("p1")
  \/ AuthLoad("p1")
  \/ \E r \in Responses : AuthProbe("p1", r)
  \/ FlowListen("p1")
  \/ \E opened \in BOOLEAN : FlowOpen("p1", opened)
  \/ FlowResolved("p1")
  \/ FlowTimeout("p1")
  \/ CheckHas("p1")
  \/ Browser

SpecCheck == Init /\ [][NextCheck]_vars

\* The login of p found no stored session for its user, ran the flow once, a
\* session was captured, and it is returning success.
FreshLoginReturns(p) ==
  /\ call[p].tool = "login" /\ call[p].pc = "fl_wait"
  /\ call[p].ea.reads = 1 /\ call[p].promise = "resolved"
  /\ call'[p].pc = "idle"
  /\ done' = Append(done, [tool |-> "login", user |-> call[p].user, ok |-> TRUE,
                           data |-> Null])

\* The check_authentication of p, for the user whose login returned success
\* just before after a session was captured in its flow, is returning.
CheckAfterLoginReturns(p) ==
  /\ call[p].tool = "check" /\ call[p].pc = "ck_has" /\ call'[p].pc = "idle"
  /\ done # <<>>
  /\ done[Len(done)] = [tool |-> "login", user |-> call[p].user, ok |-> TRUE,
                        data |-> Null]
  /\ \E i \in DOMAIN servers : servers[i].authResolve = call[p].id - 1

\* C29: a login(U) that found no stored session for U and whose flow captured
\* a session returns success with a session stored under U's handle, and the
\* check_authentication(U) that follows such a login reports authenticated =
\* true, whoever logged in on the server before.
C29_LoginThenCheck ==
  [][\A p \in Procs :
       /\ FreshLoginReturns(p) =>
            HasSession(loadCredentials(credentials', call[p].user))
       /\ CheckAfterLoginReturns(p) =>
            done'[Len(done')].data.authenticated]_vars

\* The slot of u's search in the cache; refresh is not part of the signature.
SearchSlot(u) == <<hashEmail(u), getCacheKey(SearchParams(u, FALSE))>>

\* The search of p starts with refresh = true.
RefreshStarts(p) ==
  call[p].pc = "idle" /\ call'[p].tool = "search" /\ call'[p].refresh

\* The search of p, called with refresh = true, returns results.
RefreshReturns(p) ==
  /\ call[p].tool = "search" /\ call[p].refresh
  /\ call'[p].pc = "idle" /\ Len(done') = Len(done) + 1 /\ done'[Len(done')].ok

\* The cache answers the get of p's search while an unexpired entry is in the
\* slot.
GetAnsweredWithEntry(p) ==
  /\ call[p].tool = "search" /\ call[p].pc = "s_get" /\ call'[p] # call[p]
  /\ cache[SearchSlot(call[p].user)] # NoDoc
  /\ cache[SearchSlot(call[p].user)].expiresAt > now

\* C30: with calls issued one at a time, a search with refresh = true never
\* reads the cache: it enters ensureAuthenticated at once, returns results only
\* from a portal response to a request it sent, and then the slot of its user
\* and signature (the same as without refresh) holds these results and no other
\* slot has changed; a search without refresh that finds an unexpired entry
\* returns the entry's data having sent no request and entered no
\* authentication, and leaves the channel, the cache and the store as they were.
C30_Refresh ==
  /\ [](\A p \in Procs : (call[p].tool = "search" /\ call[p].refresh) => call[p].pc # "s_get")
  /\ [](\A u \in Users : getCacheKey(SearchParams(u, TRUE)) = getCacheKey(SearchParams(u, FALSE)))
  /\ [][\A p \in Procs :
          /\ RefreshStarts(p) =>
               /\ call'[p].ea.entered
               /\ call'[p].pc \in {"ea_ret", "ea_load"}
               /\ cache' = cache
          /\ RefreshReturns(p) =>
               /\ call[p].pc \in {"mar_fetch", "mr_fetch"} /\ call[p].req.sent
               /\ cache'[SearchSlot(call[p].user)] # NoDoc
               /\ cache'[SearchSlot(call[p].user)].data = done'[Len(done')].data
               /\ cache'[SearchSlot(call[p].user)].timestamp = now
               /\ \A slot \in DOMAIN cache :
                    slot # SearchSlot(call[p].user) => cache'[slot] = cache[slot]
          /\ GetAnsweredWithEntry(p) =>
               /\ ~call[p].refresh
               /\ ~call[p].req.sent /\ ~call[p].ea.entered /\ call[p].ea.net = 0
               /\ call'[p].pc = "idle"
               /\ done' = Append(done, [tool |-> "search", user |-> call[p].user, ok |-> TRUE,
                                        data |-> cache[SearchSlot(call[p].user)].data])
               /\ UNCHANGED <<auth, cache, credentials, servers>>]_vars

\* A search with refresh = true has gone past an entry that an earlier search
\* had put into its slot, and has sent its request to the portal.
C30_Witness ==
  /\ call["p1"].tool = "search" /\ call["p1"].refresh
  /\ call["p1"].pc \in {"mar_fetch", "mr_fetch"} /\ call["p1"].req.sent
  /\ Len(done) = 1 /\ done[1].tool = "search" /\ done[1].ok
  /\ done[1].user = call["p1"].user
  /\ cache[SearchSlot(call["p1"].user)] # NoDoc

\* The records that were the default before the call that completed last.
DefaultsBefore == {h \in RegHandles : regLast.before[h] = "default"}

\* C31: once a login of a user who was already registered (named, or resolved
\* implicitly) has completed with no other registry call running, the default
\* user is the one it was before the login.
C31_LoginKeepsDefault ==
  ( /\ AllIdle /\ regLast.op = "login" /\ regLast.alone /\ regLast.result = "added"
    /\ \/ regLast.email = NoEmail
       \/ regLast.before[hashEmail(regLast.email)] # "absent" )
  => DefaultHandles(users) = DefaultsBefore

\* C32: when authenticateWithBrowser(U) returns true because its login flow
\* captured a session, the cookie jar of the channel, now marked
\* authenticated, holds U's session cookie.
C32_JarHoldsCapturedSession ==
  [][\A p \in Procs :
       FlowResolved(p) =>
         /\ auth'.isAuthenticated
         /\ call[p].user \in SessionOwners(auth'.cookieJar)]_vars

\* A step of the check_authentication of p: its start or its return.
CheckStep(p) ==
  \/ call[p].pc = "idle" /\ call'[p].tool = "check"
  \/ call[p].tool = "check" /\ call'[p].pc = "idle"

\* C33: on a channel that has a current user, no step of check_authentication,
\* for that user or another, changes the channel's trusted flag, current
\* identity, cookie jar or the credential store that clear_credentials acts on.
C33_CheckIsPureQuery ==
  [][\A p \in Procs :
       (CheckStep(p) /\ auth.currentUserEmail # NoEmail) =>
         /\ auth'.isAuthenticated = auth.isAuthenticated
         /\ auth'.currentUserEmail = auth.currentUserEmail
         /\ auth'.cookieJar = auth.cookieJar
         /\ auth'.credentialStore = auth.credentialStore]_vars

(***************************************************************************)
(* SpecExpiry: the calls of SpecSeq and check_authentication, one at a     *)
(* time, with the clock advancing between calls, so that a session stored  *)
(* earlier is read before and after its expiresAt.                         *)
(***************************************************************************)
NextExpiry ==
  \/ NextSeq
  \/ calls < MaxCallsSeq /\ AllCallsIdle /\ \E u \in Users : StartCheck("p1", u)
  \/ CheckHas("p1")
  \/ AllCallsIdle /\ Tick

SpecExpiry == Init /\ [][NextExpiry]_vars

\* The store holds a session for u whose expiresAt has passed.
ExpiredSession(u) ==
  /\ u \in Users
  /\ HasSession(loadCredentials(credentials, u))
  /\ now > JSONparse(loadCredentials(credentials, u).password).expiresAt

\* C34: a stored session whose expiresAt has passed is treated as absent: when
\* loadStoredSession reads it the cookie jar is left as it was and the channel
\* is not marked authenticated by it, makeAuthenticatedRequest sends no
\* cross-domain request with its cookies, and check_authentication reports no
\* stored session.
C34_ExpiredIsAbsent ==
  [][\A p \in Procs :
       (ExpiredSession(call[p].store) /\ call'[p] # call[p]) =>
         /\ call[p].pc \in {"ea_load", "ab_load"} =>
              /\ auth'.cookieJar = auth.cookieJar
              /\ auth'.isAuthenticated = auth.isAuthenticated
              /\ ~call'[p].req.sent
         /\ call[p].pc = "mar_load" => ~call'[p].req.sent
         /\ call[p].pc = "ck_has" => ~done'[Len(done')].data.authenticated]_vars

\* The listeners of instance i that this step closes.
ClosedNow(i) == servers[i].open \ servers'[i].open

\* C35: when the delayed close set by a captured session fires on an instance,
\* it closes no listener of a startAuthFlow that is still waiting for its
\* session (such a flow listened after the capture, so it did not set the
\* timer): a listener opened by a later flow on the same instance stays open
\* until that flow ends.
C35_DelayedCloseOwnListener ==
  [][\A i \in DOMAIN servers :
       (servers[i].closeTimer /\ ~servers'[i].closeTimer) =>
         \A l \in ClosedNow(i) :
           ~\E p \in Procs : /\ call[p].id = l.flow /\ call[p].pc \in FlowListening
                              /\ call[p].promise = "pending"]_vars

\* The ensureAuthenticated of p's search has returned false and the search is
\* about to go on.
SearchAuthFailed(p) ==
  /\ call[p].tool = "search" /\ call[p].pc = "ea_ret" /\ call[p].url = "none"
  /\ call[p].ea.result = "false"

\* The search of p returns in this step, with success or with an error.
SearchReturns(p, ok) ==
  /\ call[p].tool = "search" /\ call'[p].pc = "idle"
  /\ Len(done') = Len(done) + 1 /\ done'[Len(done')].ok = ok

\* A search whose ensureAuthenticated returned false ends there with an error.
AuthFailureFailsSearch ==
  [][\A p \in Procs :
       (SearchAuthFailed(p) /\ call'[p] # call[p]) =>
          SearchReturns(p, FALSE) /\ cache' = cache]_vars

\* A search that returns an error leaves every cache slot as it was, and the
\* cache is written only in the step in which a search returns its results.
FailedSearchWritesNothing ==
  [][/\ \A p \in Procs : SearchReturns(p, FALSE) => cache' = cache
     /\ cache' # cache => \E p \in Procs : SearchReturns(p, TRUE)]_vars

\* C36: a search fails when its authentication fails or throws or the portal
\* response is not OK, and a search that fails writes nothing to the cache and
\* returns the error to its caller.
C36_FailedSearchNoCacheWrite ==
  AuthFailureFailsSearch /\ FailedSearchWritesNothing

(***************************************************************************)
(* SpecCalendar: CalendarSearch.searchUpcomingEvents (the school_events    *)
(* tool) called without beginDate, endDate and searchMonths, one call at a *)
(* time, with the clock advancing between calls by steps shorter than the  *)
(* cache lifetime.  The server is configured as in Init, so the calendar   *)
(* URL is on another host than the base URL.                               *)
(***************************************************************************)
MaxShortTicks == 2

HoursPerMonth == 720

\* Date.toISOString
toISOString(t) == <<"iso", t>>

\* new Date(beginDate.getTime()) with setMonth(getMonth() + months)
AddMonths(t, months) == t + months * HoursPerMonth

\* The cacheKey object of a calendar search beginning at beginDate.
CalendarKey(u, beginDate, months) ==
  Params(<<"tool", "beginDate", "endDate", "userEmail">>,
         [tool |-> "calendar", beginDate |-> toISOString(beginDate),
          endDate |-> toISOString(AddMonths(beginDate, months)), userEmail |-> u])

CalendarHashes ==
  {getCacheKey(CalendarKey(EmailA, t, months)) : t \in 0 .. MaxShortTicks, months \in {3, 12}}

\* parseCalendarEvents of a response: no event, or some.
Events(empty) == [events |-> IF empty THEN "none" ELSE "some"]

InitCalendar ==
  /\ \E S \in SUBSET Users :
       credentials = [h \in Handles |->
                        IF \E u \in S : hashEmail(u) = h
                        THEN StoredSession(CHOOSE u \in S : hashEmail(u) = h)
                        ELSE NoDoc]
  /\ cache = [slot \in Handles \X (SearchHashes \cup CalendarHashes) |-> NoDoc]
  /\ now = 0
  /\ lastRead = NoRead
  /\ InitRegVars
  /\ InitAuthVars

\* The clock between two calls.
TickShort ==
  /\ now < MaxShortTicks
  /\ now' = now + 1
  /\ UNCHANGED <<credentials, cache, lastRead, regVars, authVars>>

\* searchUpcomingEvents: ensureCache, beginDate = new Date(), then cache.get
\* unless refresh, else ensureAuthenticated
StartEvents(p, u, refresh) ==
  /\ call[p].pc = "idle"
  /\ calls' = calls + 1
  /\ LET c == [cacheInst |-> u, beginDate |-> now, months |-> 3]
              @@ NewCall("events", u, refresh)
         e == EnterEnsure(auth, c)
     IN  IF refresh
         THEN /\ auth' = e.auth
              /\ call' = [call EXCEPT ![p] = e.call]
         ELSE /\ auth' = auth
              /\ call' = [call EXCEPT ![p] = [c EXCEPT !.pc = "c_get"]]
  /\ UNCHANGED <<credentials, cache, ds, servers, done>>
  /\ Untouched

\* searchUpcomingEvents: cache.get(cacheKey) answered
EventsCacheGet(p) ==
  /\ call[p].pc = "c_get"
  /\ LET c == call[p]
         cachedResults == CacheGet(cache, c.cacheInst,
                                   CalendarKey(c.user, c.beginDate, 3), now)
         e == EnterEnsure(auth, c)
     IN  IF cachedResults # Null
         THEN /\ Return(p, TRUE, cachedResults)
              /\ auth' = auth
         ELSE /\ auth' = e.auth
              /\ call' = [call EXCEPT ![p] = e.call]
              /\ done' = done
  /\ UNCHANGED <<credentials, cache, ds, servers, calls>>
  /\ Untouched

\* searchUpcomingEvents: ensureAuthenticated has returned (its result is not
\* looked at); makeAuthenticatedRequest for the calendar URL
EventsRequest(p) ==
  /\ call[p].pc = "ea_ret" /\ call[p].tool = "events" /\ call[p].url = "none"
  /\ makeAuthenticatedRequest(p, [call[p] EXCEPT !.url = DirectoryHost])
  /\ UNCHANGED <<credentials, cache, ds, servers, calls>>
  /\ Untouched

\* searchUpcomingEvents: a calendar response.  The first one with no event
\* starts the 12 month request; a 12 month response that is ok is cached
\* under the extended key, one that is not ok leaves the empty 3 month result.
EventsFetch(p, r, empty) ==
  /\ call[p].pc = "mar_fetch" /\ call[p].tool = "events"
  /\ r \in FetchResponses
  /\ LET c == call[p]
         key == CalendarKey(c.user, c.beginDate, 3)
         extendedKey == CalendarKey(c.user, c.beginDate, 12)
     IN  IF r.throws \/ (c.months = 3 /\ ~r.ok)
         THEN /\ Return(p, FALSE, Null)
              /\ UNCHANGED <<cache, auth>>
         ELSE IF c.months = 3 /\ empty
         THEN /\ makeAuthenticatedRequest(p, [c EXCEPT !.months = 12, !.req = NoReq])
              /\ cache' = cache
         ELSE IF c.months = 12 /\ ~r.ok
         THEN /\ cache' = CacheSet(cache, c.cacheInst, key, Events(TRUE), CacheTTLHours, now)
              /\ Return(p, TRUE, Events(TRUE))
              /\ auth' = auth
         ELSE /\ cache' = CacheSet(cache, c.cacheInst,
                                   IF c.months = 12 THEN extendedKey ELSE key,
                                   Events(empty), CacheTTLHours, now)
              /\ Return(p, TRUE, Events(empty))
              /\ auth' = auth
  /\ UNCHANGED <<credentials, ds, servers, calls>>
  /\ Untouched

NextCalendar ==
  \/ calls < MaxCallsSeq /\ AllCallsIdle
       /\ \E u \in Users, refresh \in BOOLEAN : StartEvents("p1", u, refresh)
  \/ EventsCacheGet("p1")
  \/ EnsureLoad("p1")
  \/ \E r \in Responses : EnsureProbe("p1", r)
  \/ EnsureLoad2("p1")
  \/ AuthHas("p1")
  \/ AuthLoad("p1")
  \/ \E r \in Responses : AuthProbe("p1", r)
  \/ FlowListen("p1")
  \/ \E opened \in BOOLEAN : FlowOpen("p1", opened)
  \/ FlowResolved("p1")
  \/ FlowTimeout("p1")
  \/ EventsRequest("p1")
  \/ SearchLoad("p1")
  \/ \E r \in Responses, empty \in BOOLEAN : EventsFetch("p1", r, empty)
  \/ Browser
  \/ AllCallsIdle /\ TickShort

SpecCalendar == InitCalendar /\ [][NextCalendar]_vars

\* The call that returned last was a successful school_events call for u, and
\* the entry it wrote or read is still within its lifetime.
EventsJustServed(u) ==
  /\ done # <<>>
  /\ done[Len(done)].tool = "events" /\ done[Len(done)].user = u /\ done[Len(done)].ok
  /\ \E slot \in DOMAIN cache :
       /\ slot[1] = hashEmail(u) /\ cache[slot] # NoDoc
       /\ cache[slot].data = done[Len(done)].data
       /\ cache[slot].expiresAt > now

\* C37: when a school_events call without refresh follows a successful one of
\* the same user within the lifetime of its entry, its cache read is a hit:
\* the call returns the events of the first call and nothing is asked of the
\* portal or the store.
C37_SecondCallHits ==
  [][\A p \in Procs :
       ( /\ call[p].tool = "events" /\ call[p].pc = "c_get" /\ call'[p] # call[p]
         /\ EventsJustServed(call[p].user) )
       => /\ call'[p].pc = "idle"
          /\ done' = Append(done, done[Len(done)])
          /\ UNCHANGED <<auth, cache, credentials>>]_vars

(***************************************************************************)
(* SpecOutage: one caller at a time while the portal cannot be reached:     *)
(* every probe of /parent throws.  open() may throw or not, the directory   *)
(* fetch answers as in SpecSeq, and every answer a call awaits arrives.     *)
(***************************************************************************)

ResumeOutage(p) ==
  \/ EnsureLoad(p)
  \/ EnsureProbe(p, FetchThrows)
  \/ EnsureLoad2(p)
  \/ AuthHas(p)
  \/ AuthLoad(p)
  \/ AuthProbe(p, FetchThrows)
  \/ FlowListen(p)
  \/ \E opened \in BOOLEAN : FlowOpen(p, opened)
  \/ FlowResolved(p)
  \/ FlowTimeout(p)
  \/ SearchLoad(p)
  \/ ClearDone(p)
  \/ SearchCacheGet(p)
  \/ SearchRequest(p)
  \/ \E r \in Responses : SearchFetch(p, r)

NextOutage ==
  \/ calls < MaxCallsSeq /\ AllCallsIdle /\ ToolCall("p1", Users)
  \/ ResumeOutage("p1")
  \/ Browser

SpecOutage == Init /\ [][NextOutage]_vars /\ WF_vars(ResumeOutage("p1"))

\* The positions a call is at once its probe has thrown: before the second
\* loadCredentials of ensureAuthenticated, or at the start of startAuthFlow.
Reauthenticating == {"ea_load2", "fl_port"}

\* authenticateWithBrowser of caller p has returned a boolean: to
\* ensureAuthenticated, which returns it, or to the login tool.
ReturnedBoolean(p) ==
  \/ call[p].pc = "ea_ret" /\ call[p].ea.result \in {"true", "false"}
  \/ /\ call[p].pc = "idle" /\ done # <<>>
     /\ done[Len(done)].tool = "login" /\ done[Len(done)].ok \in BOOLEAN

\* C38: a probe that throws is handled as an invalid session: the call of
\* ensureAuthenticated goes on to its second credential read and the call of
\* authenticateWithBrowser starts the login flow, neither call ends at the
\* throw, and the call then returns true or false; an error thrown by open()
\* inside startAuthFlow makes authenticateWithBrowser return false with the
\* flow's listener closed.
C38_ErrorsAreCaught ==
  /\ [][\A p \in Procs :
          /\ (call[p].pc \in {"ea_probe", "ab_probe"} /\ call'[p] # call[p])
               => /\ call'[p].pc \in Reauthenticating
                  /\ call'[p].id = call[p].id
                  /\ done' = done
          /\ EnsureProbe(p, FetchThrows) => call'[p].pc = "ea_load2"
          /\ AuthProbe(p, FetchThrows) => call'[p].pc = "fl_port"
          /\ FlowOpen(p, FALSE) =>
               /\ ~LastReturn(p)'
               /\ \A l \in OpenListeners' : l.flow # call[p].id]_vars
  /\ (call["p1"].pc \in Reauthenticating) ~> ReturnedBoolean("p1")

\* A search whose two probes threw and whose login flow then failed at open()
\* (its timer did not fire) has got false from ensureAuthenticated, and the
\* flow's listener is closed.
C38_Witness ==
  /\ call["p1"].tool = "search" /\ call["p1"].pc = "ea_ret"
  /\ call["p1"].ea.result = "false"
  /\ call["p1"].ea.net = 2 /\ call["p1"].ea.flows = 1
  /\ call["p1"].promise = "pending"
  /\ \A l \in OpenListeners : l.flow # call["p1"].id

====
